---- MODULE Spec2Model ----
(***************************************************************************)
(* A model of src/src/example/echo_client.py: the Web Socket echo client   *)
(* for the HyBi 01, HyBi 00 and Hixie 75 drafts.                           *)
(*                                                                         *)
(* Byte strings are sequences of integers 0..255; text (unicode) payloads  *)
(* are sequences of code points.  Four specifications share the module:    *)
(*   SpecCodec  the frame codec applied to payloads, frames and lengths,   *)
(*   SpecRecv   one call of _receive_bytes over a chunking transport,      *)
(*   SpecKey    the Sec-WebSocket-Key generator, one random draw a step,   *)
(*   Spec       one run of EchoClient.run() against a nondeterministic     *)
(*              server and transport.                                      *)
(***************************************************************************)
EXTENDS Integers, Sequences, FiniteSets, TLC

VARIABLES
    \* ---- frame codec (SpecCodec)
    cPc,          \* "input" | "encoded" | "decoded"
    cVariant,     \* protocol variant whose codec is applied
    cPayload,     \* the text payload (code points)
    cFrame,       \* result of _create_text_frame
    cDecoded,     \* result of _parse_frame_briefly on cFrame
    hLength,      \* payload_length, as four 16-bit limbs
    hHeader,      \* the header _create_text_frame builds for hLength
    \* ---- key generator (SpecKey)
    kPc,          \* "start" | "chars" | "spaces" | "done"
    kSpaces,      \* spaces
    kNumber,      \* number, as two 16-bit limbs
    kKey,         \* key
    kLeft,        \* iterations left in the running insertion loop
    \* ---- one run of the client (Spec): options
    protocol_version,  \* options.protocol_version
    use_tls,           \* options.use_tls
    message,           \* options.message (code points)
    \* ---- control
    pc,           \* the statement run() is at
    exc,          \* the exception propagating out of run(), or "none"
    excAt,        \* the pc at which it was raised
    \* ---- transport
    sock,         \* what self._socket is: "raw" or "tls" (_TLSSocket)
    rawClosed,    \* close() calls that reached the raw socket
    inbuf,        \* bytes the server has sent and the client has not read
    more,         \* the server may still send its bytes for this phase
    \* ---- handshake
    hsAttempts,   \* calls of handshake()
    established,  \* 'Connection established' was logged
    fields,       \* request fields still to send
    sendIx,       \* Hixie 75: index of the next request part
    number1,      \* self._number1
    number2,      \* self._number2
    key3,         \* self._key3
    field,        \* status line bytes read so far
    name,         \* header name being read
    value,        \* header value being read
    hdrs,         \* the header map _read_fields builds
    blockRecv,    \* reads made when the header block was complete, or 0
    reply,        \* the sixteen bytes read as challenge response
    expIx,        \* Hixie 75: index into _EXPECTED_RESPONSE
    skipPos,      \* _skip_headers: pos
    \* ---- message loop
    idx,          \* index of the current message
    curFrame,     \* run(): frame, the frame of the current message
    sentFrames,   \* text frames sent, in order
    echoes,       \* byte strings received as echoes, in order
    \* ---- closing handshake
    closing,      \* closing
    \* ---- observation
    wire,         \* kinds of the byte strings sent, in order
    nSend,        \* socket.send calls
    nRecv,        \* _receive_bytes calls
    closeOps,     \* transport calls of the closing handshake, in order
    fieldSends,   \* how often each request field was sent
    hs75Read,     \* bytes the Hixie 75 handshake has read, in order
    hdrRead,      \* bytes _read_fields and the LF after it have read, in order
    \* ---- one call of _receive_bytes (SpecRecv)
    rPc,          \* "idle" | "loop" | "returned" | "raised"
    rStream,      \* bytes the peer sends before it closes
    rN,           \* the length argument of the call
    rLength,      \* length
    rBytes,       \* bytes, the chunks appended so far
    rReads,       \* socket.recv calls: size asked, bytes returned
    rResult       \* the value returned, or the exception raised

keyVars == <<kPc, kSpaces, kNumber, kKey, kLeft>>

codecVars == <<cPc, cVariant, cPayload, cFrame, cDecoded, hLength, hHeader>>

optVars == <<protocol_version, use_tls, message>>

excVars == <<exc, excAt>>

sockVars == <<sock, rawClosed>>

srvVars == <<inbuf, more>>

reqVars == <<hsAttempts, fields, sendIx, number1, number2, key3>>

respVars == <<field, name, value, hdrs, blockRecv, reply, expIx, skipPos>>

loopVars == <<idx, curFrame, sentFrames, echoes>>

sendVars == <<wire, nSend>>

histVars == <<closeOps, fieldSends, hs75Read, hdrRead>>

recvVars == <<rPc, rStream, rN, rLength, rBytes, rReads, rResult>>

runVars ==
    <<optVars, pc, excVars, sockVars, srvVars, reqVars, established, respVars,
      loopVars, closing, sendVars, nRecv, histVars>>

vars == <<codecVars, keyVars, runVars, recvVars>>

(***************************************************************************)
(* Bytes and characters                                                    *)
(***************************************************************************)

\* The printable ASCII characters 0x20..0x5f and 0x61..0x7e in code order.
AsciiLo == " !\"#$%&'()*+,-./0123456789:;<=>?@ABCDEFGHIJKLMNOPQRSTUVWXYZ[\\]^_"

AsciiHi == "abcdefghijklmnopqrstuvwxyz{|}~"

InStr(c, table) == \E i \in 1..Len(table) : SubSeq(table, i, i) = c

IndexIn(c, table) == CHOOSE i \in 1..Len(table) : SubSeq(table, i, i) = c

\* ord() of a one-character string.
Ord(c) ==
    IF c = "\r" THEN 13
    ELSE IF c = "\n" THEN 10
    ELSE IF InStr(c, AsciiLo) THEN 31 + IndexIn(c, AsciiLo)
    ELSE 96 + IndexIn(c, AsciiHi)

\* The byte string of an ASCII string literal.
Bytes(s) == [i \in 1..Len(s) |-> Ord(SubSeq(s, i, i))]

Min(a, b) == IF a < b THEN a ELSE b

Max(a, b) == IF a > b THEN a ELSE b

\* Python's s[a:b] for 0 <= a, 0 <= b (0-based, half open, clipped).
Slice(s, a, b) == SubSeq(s, a + 1, Min(b, Len(s)))

\* s * n for a one-element string.
Rep(x, n) == [i \in 1..n |-> x]

\* struct.pack('!H' / '!Q', v): v as size big-endian bytes.
RECURSIVE StructPack(_, _)
StructPack(size, v) ==
    IF size = 0 THEN <<>> ELSE StructPack(size - 1, v \div 256) \o <<v % 256>>

RECURSIVE BigEndian(_)
BigEndian(s) ==
    IF s = <<>> THEN 0
    ELSE 256 * BigEndian(SubSeq(s, 1, Len(s) - 1)) + s[Len(s)]

\* struct.unpack(fmt, s)[0]: struct.error unless s is exactly size bytes.
StructUnpack(size, s) ==
    IF Len(s) = size THEN [ok |-> TRUE, val |-> BigEndian(s)]
    ELSE [ok |-> FALSE, val |-> 0]

(***************************************************************************)
(* UTF-8                                                                   *)
(***************************************************************************)

\* unicode.encode('utf-8') of one code point below 0x10000.
Utf8Char(cp) ==
    IF cp < 128 THEN <<cp>>
    ELSE IF cp < 2048 THEN <<192 + (cp \div 64), 128 + (cp % 64)>>
    ELSE <<224 + (cp \div 4096), 128 + ((cp \div 64) % 64), 128 + (cp % 64)>>

RECURSIVE Utf8EncodeRec(_)
Utf8EncodeRec(t) ==
    IF t = <<>> THEN <<>> ELSE Utf8Char(Head(t)) \o Utf8EncodeRec(Tail(t))

\* payload.encode('utf-8'); pure ASCII text encodes to itself.
Utf8Encode(t) ==
    IF \A i \in 1..Len(t) : t[i] < 128 THEN t ELSE Utf8EncodeRec(t)

IsCont(s, i) == i <= Len(s) /\ s[i] >= 128 /\ s[i] < 192

\* The code point decoded at the head of s and the bytes it takes; an
\* invalid or truncated sequence yields U+FFFD for one byte ('replace').
Utf8Head(s) ==
    LET b == s[1] IN
    IF b < 128 THEN [cp |-> b, n |-> 1]
    ELSE IF b >= 194 /\ b < 224 /\ IsCont(s, 2)
        THEN [cp |-> (b - 192) * 64 + (s[2] - 128), n |-> 2]
    ELSE IF b >= 224 /\ b < 240 /\ IsCont(s, 2) /\ IsCont(s, 3)
            /\ (b > 224 \/ s[2] >= 160)
        THEN [cp |-> (b - 224) * 4096 + (s[2] - 128) * 64 + (s[3] - 128), n |-> 3]
    ELSE [cp |-> 65533, n |-> 1]

\* The byte at i is taken as a continuation byte by a sequence that starts
\* one or two bytes before it.
Utf8Taken(s, i) ==
    /\ IsCont(s, i)
    /\ \/ i > 1 /\ Utf8Head(SubSeq(s, i - 1, Len(s))).n >= 2
       \/ i > 2 /\ Utf8Head(SubSeq(s, i - 2, Len(s))).n = 3

\* The decoder's output for s.  A long s is cut where a sequence starts (at
\* most two bytes are taken in a row) and the two parts are decoded apart.
RECURSIVE Utf8DecodeRec(_)
Utf8DecodeRec(s) ==
    IF s = <<>> THEN <<>>
    ELSE IF Len(s) <= 8 THEN
        LET h == Utf8Head(s)
        IN  <<h.cp>> \o Utf8DecodeRec(SubSeq(s, h.n + 1, Len(s)))
    ELSE
        LET mid == Len(s) \div 2
            cut == CHOOSE i \in mid..(mid + 2) :
                        ~Utf8Taken(s, i) /\ \A j \in mid..(i - 1) : Utf8Taken(s, j)
        IN  Utf8DecodeRec(SubSeq(s, 1, cut - 1))
                \o Utf8DecodeRec(SubSeq(s, cut, Len(s)))

\* str.decode('utf-8', 'replace'); pure ASCII bytes decode to themselves.
Utf8Decode(s) ==
    IF \A i \in 1..Len(s) : s[i] < 128 THEN s ELSE Utf8DecodeRec(s)

(***************************************************************************)
(* Unsigned numbers beyond 31 bits: big-endian sequences of 16-bit limbs   *)
(***************************************************************************)

Limb == 65536

\* 4294967295
U32Max == <<Limb - 1, Limb - 1>>

\* A number below 2^31 as two limbs.
U32(v) == <<v \div Limb, v % Limb>>

IsZero(x) == \A i \in 1..Len(x) : x[i] = 0

\* x / d and x % d for a small d: long division from the top limb.
RECURSIVE DivSmall(_, _)
DivSmall(x, d) ==
    IF x = <<>> THEN [q |-> <<>>, r |-> 0]
    ELSE LET p == DivSmall(SubSeq(x, 1, Len(x) - 1), d)
             cur == p.r * Limb + x[Len(x)]
         IN  [q |-> Append(p.q, cur \div d), r |-> cur % d]

\* x * m for a small m: limbs d and the carry c out of the top limb.
RECURSIVE MulSmall(_, _)
MulSmall(x, m) ==
    IF x = <<>> THEN [d |-> <<>>, c |-> 0]
    ELSE LET p == MulSmall(Tail(x), m)
             cur == Head(x) * m + p.c
         IN  [d |-> <<cur % Limb>> \o p.d, c |-> cur \div Limb]

\* number * spaces as a Python long: one limb more than number.
Product(number, spaces) ==
    LET m == MulSmall(number, spaces) IN <<m.c>> \o m.d

RECURSIVE DecDigits(_)
DecDigits(x) ==
    IF IsZero(x) THEN <<>>
    ELSE LET dv == DivSmall(x, 10) IN Append(DecDigits(dv.q), 48 + dv.r)

\* str(x): base ten, numerals U+0030..U+0039.
Str(x) == IF IsZero(x) THEN <<48>> ELSE DecDigits(x)

\* struct.pack("!I", x): four big-endian bytes.
PackU32(x) == StructPack(2, x[1]) \o StructPack(2, x[2])

\* A length below 2^31 as four limbs.
U64(v) == <<0, 0, v \div Limb, v % Limb>>

\* struct.pack('!Q', x): eight big-endian bytes.
PackU64(x) ==
    StructPack(2, x[1]) \o StructPack(2, x[2]) \o StructPack(2, x[3])
        \o StructPack(2, x[4])

(***************************************************************************)
(* Frame codec                                                             *)
(***************************************************************************)

Variants == {"hybi01", "hybi00", "hixie75"}

_OPCODE_CLOSE == 1
_OPCODE_TEXT == 4

Raise(msg) == [ok |-> FALSE, err |-> msg]

Return(v) == [ok |-> TRUE, val |-> v]

\* EchoClient._create_text_frame (HyBi 01).  The last branch needs a payload
\* of 2^63 bytes and is out of every bound here.
\* A header whose one-byte length form reaches 126.
Hybi01HeaderShortTo126(payload_length) ==
    LET low == payload_length[4]
        below16 == payload_length[1] = 0 /\ payload_length[2] = 0
                    /\ payload_length[3] = 0
    IN  IF below16 /\ low <= 126 THEN Return(<<_OPCODE_TEXT, low>>)
        ELSE IF below16 THEN Return(<<_OPCODE_TEXT, 126>> \o StructPack(2, low))
        ELSE IF payload_length[1] < 32768
            THEN Return(<<_OPCODE_TEXT, 127>> \o PackU64(payload_length))
        ELSE Raise("Too long payload")

\* The header _create_text_frame builds for payload_length (four limbs):
\* opcode, then the length in one of three forms, or 'Too long payload'.
Hybi01Header(payload_length) ==
    LET low == payload_length[4]
        below16 == payload_length[1] = 0 /\ payload_length[2] = 0
                    /\ payload_length[3] = 0
    IN  IF below16 /\ low <= 125 THEN Return(<<_OPCODE_TEXT, low>>)
        ELSE IF below16 THEN Return(<<_OPCODE_TEXT, 126>> \o StructPack(2, low))
        ELSE IF payload_length[1] < 32768
            THEN Return(<<_OPCODE_TEXT, 127>> \o PackU64(payload_length))
        ELSE Raise("Too long payload")

CreateTextFrameHybi01(payload) ==
    LET encoded_payload == Utf8Encode(payload)
        header == Hybi01Header(U64(Len(encoded_payload)))
    IN  IF header.ok THEN Return(header.val \o encoded_payload) ELSE header

\* EchoClientHybi00._create_text_frame, EchoClientHixie75._create_text_frame.
CreateTextFrameHixie75(payload) ==
    Return(<<0>> \o Utf8Encode(payload) \o <<255>>)

CreateTextFrame(variant, payload) ==
    IF variant = "hybi01" THEN CreateTextFrameHybi01(payload)
    ELSE CreateTextFrameHixie75(payload)

\* A parser blind to the flag bits of the first byte.
NoFlagsSeen(first_byte) == FALSE

\* first_byte & 0xf0: any of more/rsv1/rsv2/rsv3 is set.
HasFlags(first_byte) == first_byte \div 16 # 0

\* EchoClient._parse_frame_briefly (HyBi 01).
ParseFrameBrieflyHybi01(frame) ==
    IF Len(frame) <= 1 THEN Raise("Incomplete octet frame")
    ELSE
    LET first_byte == frame[1]
        second_byte == frame[2]
    IN
    IF first_byte % 16 # _OPCODE_TEXT THEN Raise("Bad opcode")
    ELSE IF HasFlags(first_byte) THEN Raise("unsupported flag more/rsv1/rsv2/rsv3")
    ELSE IF second_byte \div 128 # 0 THEN Raise("Unsupported flag rsv4 is set")
    ELSE
    LET len7 == second_byte % 128
        \* [ok, payload_length, payload_pos]
        hdr ==
            IF len7 = 127 THEN
                IF Len(frame) < 2 + 8 THEN Raise("Incomplete length header")
                ELSE LET u == StructUnpack(8, Slice(frame, 2, 9))
                     IN  IF u.ok THEN [ok |-> TRUE, len |-> u.val, pos |-> 10]
                         ELSE Raise("struct.error")
            ELSE IF len7 = 126 THEN
                IF Len(frame) < 2 + 2 THEN Raise("Incomplete length header")
                ELSE LET u == StructUnpack(2, Slice(frame, 2, 3))
                     IN  IF u.ok THEN [ok |-> TRUE, len |-> u.val, pos |-> 4]
                         ELSE Raise("struct.error")
            ELSE [ok |-> TRUE, len |-> len7, pos |-> 2]
    IN
    IF ~hdr.ok THEN hdr
    ELSE IF Len(frame) < hdr.pos + hdr.len THEN Raise("Incomplete payload")
    ELSE Return(Utf8Decode(Slice(frame, hdr.pos, hdr.pos + hdr.len)))

\* EchoClient._parse_frame_briefly_hixie75: frame[1:-1] decoded.
ParseFrameBrieflyHixie75(frame) ==
    IF Len(frame) <= 0 THEN Raise("Incomplete 0 octet frame")
    ELSE IF frame[1] # 0 THEN Raise("Bad frame type")
    ELSE Return(Utf8Decode(SubSeq(frame, 2, Len(frame) - 1)))

ParseFrameBriefly(variant, frame) ==
    IF variant = "hybi01" THEN ParseFrameBrieflyHybi01(frame)
    ELSE ParseFrameBrieflyHixie75(frame)

(***************************************************************************)
(* SpecCodec: encode a payload, then decode the frame                      *)
(***************************************************************************)

\* Bounds of the payloads tried.
MaxTextLen == 3

\* Code points of one, two and three UTF-8 bytes: 'a', e-acute, U+65E5.
TextAlphabet == {97, 233, 26085}

RECURSIVE TextsOfLen(_)
TextsOfLen(n) ==
    IF n = 0 THEN {<<>>}
    ELSE {<<c>> \o t : c \in TextAlphabet, t \in TextsOfLen(n - 1)}

ShortTexts == UNION {TextsOfLen(n) : n \in 0..MaxTextLen}

\* Payloads around the edges of the three HyBi 01 length encodings.
LongTexts ==
    {Rep(97, n) : n \in {125, 126, 127, 65535, 65536}}
        \cup {Rep(233, 62) \o <<97>>, Rep(233, 63), Rep(26085, 42)}

CodecPayloads == ShortTexts \cup LongTexts

\* Payload lengths around the edges of the length forms, up to 2^64 - 1.
LengthDraws ==
    {U64(n) : n \in {0, 1, 125, 126, 127, 255, 256, 65535, 65536, 65537}}
        \cup {<<0, 1, 0, 0>>, <<32767, 65535, 65535, 65535>>, <<32768, 0, 0, 0>>,
              <<65535, 65535, 65535, 65535>>}

Hello == Bytes("hello")

\* Frames as they may come from the wire: every mix of first and second
\* bytes below before 'hello', and frames cut short.
FirstByteDraws == {4, 20, 36, 68, 132, 244, 0, 1, 5, 15, 21}

SecondByteDraws == {5, 133, 0, 128, 4, 6, 126, 127, 254, 255}

ReceivedFrames ==
    {<<b1, b2>> \o Hello : b1 \in FirstByteDraws, b2 \in SecondByteDraws}
        \cup {<<>>, <<4>>, <<20>>, <<4, 133>>, <<4, 126, 0, 5>> \o Hello,
              <<4, 126, 0>>}

\* The codec at rest, in the specifications that do not exercise it.
CodecIdle ==
    /\ cPc = "idle"
    /\ cVariant = "hybi01"
    /\ cPayload = <<>>
    /\ cFrame = Raise("none")
    /\ cDecoded = Raise("none")
    /\ hLength = U64(0)
    /\ hHeader = Raise("none")

\* A payload to encode, a frame from the wire to parse, or a payload length
\* whose header is to be built.
CodecInit ==
    /\ cVariant \in Variants
    /\ cDecoded = Raise("none")
    /\ hHeader = Raise("none")
    /\ \/ /\ cPc = "input"
          /\ cPayload \in CodecPayloads
          /\ cFrame = Raise("none")
          /\ hLength = U64(0)
       \/ /\ cPc = "received"
          /\ cVariant = "hybi01"
          /\ cPayload = <<>>
          /\ cFrame \in {Return(f) : f \in ReceivedFrames}
          /\ hLength = U64(0)
       \/ /\ cPc = "length"
          /\ cVariant = "hybi01"
          /\ cPayload = <<>>
          /\ cFrame = Raise("none")
          /\ hLength \in LengthDraws

\* frame = self._create_text_frame(payload)
CodecEncode ==
    /\ cPc = "input"
    /\ cFrame' = CreateTextFrame(cVariant, cPayload)
    /\ cPc' = "encoded"
    /\ UNCHANGED <<cVariant, cPayload, cDecoded, hLength, hHeader, keyVars,
                   runVars, recvVars>>

\* payload = self._parse_frame_briefly(frame)
CodecDecode ==
    /\ cPc = "encoded"
    /\ cFrame.ok
    /\ cDecoded' = ParseFrameBriefly(cVariant, cFrame.val)
    /\ cPc' = "decoded"
    /\ UNCHANGED <<cVariant, cPayload, cFrame, hLength, hHeader, keyVars,
                   runVars, recvVars>>

\* payload = self._parse_frame_briefly(received), on bytes from the wire.
CodecParseReceived ==
    /\ cPc = "received"
    /\ cDecoded' = ParseFrameBriefly(cVariant, cFrame.val)
    /\ cPc' = "parsed"
    /\ UNCHANGED <<cVariant, cPayload, cFrame, hLength, hHeader, keyVars,
                   runVars, recvVars>>

\* _create_text_frame up to the header, for a payload of hLength bytes.
CodecHeader ==
    /\ cPc = "length"
    /\ hHeader' = Hybi01Header(hLength)
    /\ cPc' = "header"
    /\ UNCHANGED <<cVariant, cPayload, cFrame, cDecoded, hLength, keyVars,
                   runVars, recvVars>>

CodecNext == CodecEncode \/ CodecDecode \/ CodecParseReceived \/ CodecHeader

\* C1: for every text payload and each variant, decoding the bytes produced
\* by encoding the payload returns the payload.
C1_RoundTrip ==
    cPc = "decoded" => (cDecoded.ok /\ cDecoded.val = cPayload)

(***************************************************************************)
(* WebSocketHandshake._generate_sec_websocket_key                          *)
(***************************************************************************)

\* Bounds of the random draws tried.
MaxInserted == 2
MaxSpacesTried == 3

\* random.randint(1, 12) for spaces: the small values and the largest.
SpacesDraws == (1..MaxSpacesTried) \cup {12}

\* A generator that forgets to divide by spaces.
MaxNumUnscaled(spaces) == U32Max

\* maxnum = 4294967295 / spaces
MaxNum(spaces) == DivSmall(U32Max, spaces).q

\* random.randint(0, maxnum): both ends and a value between.
NumberDraws(spaces) == {U32(0), U32(7), MaxNum(spaces)}

\* random.randint(1, 12) for n.
InsertedDraws == 1..MaxInserted

\* available_chars = range(0x21, 0x2f + 1) + range(0x3a, 0x7e + 1)
AvailableChars == (33..47) \cup (58..126)

\* random.choice(available_chars): the characters next to the space and
\* next to the digits.
CharDraws == {c \in AvailableChars : c \in {33, 47, 58}}

\* random.randint(lo, hi): both ends and the middle.
PosDraws(lo, hi) == {p \in lo..hi : p \in {lo, hi, (lo + hi) \div 2}}

\* key[0:pos] + ch + key[pos:]
InsertAt(key, pos, ch) ==
    SubSeq(key, 1, pos) \o <<ch>> \o SubSeq(key, pos + 1, Len(key))

\* pos = random.randint(0, len(key)): both ends.
CharPositions(key) == {0, Len(key)}

\* A generator that lets a space go first or last.
SpacePositionsAnywhere(key) == PosDraws(0, Len(key))

\* pos = random.randint(1, len(key) - 1)
SpacePositions(key) == PosDraws(1, Len(key) - 1)

\* The generator at rest, in the specifications that do not exercise it.
KeyIdle ==
    /\ kPc = "idle"
    /\ kSpaces = 0
    /\ kNumber = U32(0)
    /\ kKey = <<>>
    /\ kLeft = 0

KeyInit ==
    /\ kPc = "start"
    /\ kSpaces = 0
    /\ kNumber = U32(0)
    /\ kKey = <<>>
    /\ kLeft = 0

\* Steps 16-20 and the draw of n: spaces, number, key = str(product).
KeyDraw ==
    /\ kPc = "start"
    /\ \E spaces \in SpacesDraws :
        \E number \in NumberDraws(spaces) :
        \E n \in InsertedDraws :
            /\ kSpaces' = spaces
            /\ kNumber' = number
            /\ kKey' = Str(Product(number, spaces))
            /\ kLeft' = n
    /\ kPc' = "chars"
    /\ UNCHANGED <<codecVars, runVars, recvVars>>

\* Step 21: one pass of the loop inserting a random character.
KeyInsertChar ==
    /\ kPc = "chars"
    /\ \E ch \in CharDraws :
        \E pos \in CharPositions(kKey) :
            kKey' = InsertAt(kKey, pos, ch)
    /\ kLeft' = IF kLeft = 1 THEN kSpaces ELSE kLeft - 1
    /\ kPc' = IF kLeft = 1 THEN "spaces" ELSE "chars"
    /\ UNCHANGED <<kSpaces, kNumber, codecVars, runVars, recvVars>>

\* Step 22: one pass of the loop inserting a space; the last one returns.
KeyInsertSpace ==
    /\ kPc = "spaces"
    /\ \E pos \in SpacePositions(kKey) :
            kKey' = InsertAt(kKey, pos, 32)
    /\ kLeft' = kLeft - 1
    /\ kPc' = IF kLeft = 1 THEN "done" ELSE "spaces"
    /\ UNCHANGED <<kSpaces, kNumber, codecVars, runVars, recvVars>>

KeyNext == KeyDraw \/ KeyInsertChar \/ KeyInsertSpace

CountOf(s, x) == Cardinality({i \in 1..Len(s) : s[i] = x})

RECURSIVE DigitsOf(_)
DigitsOf(s) ==
    IF s = <<>> THEN <<>>
    ELSE IF Head(s) >= 48 /\ Head(s) <= 57 THEN <<Head(s)>> \o DigitsOf(Tail(s))
    ELSE DigitsOf(Tail(s))

\* C8: the returned key holds exactly `spaces` spaces, none of them first or
\* last, and its digits alone spell number * spaces in base ten.
C8_KeyShape ==
    kPc = "done" =>
        /\ CountOf(kKey, 32) = kSpaces
        /\ kKey[1] # 32
        /\ kKey[Len(kKey)] # 32
        /\ DigitsOf(kKey) = Str(Product(kNumber, kSpaces))

\* A key of twelve spaces made from the largest number has been returned.
C8_Witness ==
    /\ kPc = "done"
    /\ kSpaces = 12
    /\ kNumber = MaxNum(12)
    /\ Len(kKey) >= 22

(***************************************************************************)
(* The transport and the server                                            *)
(***************************************************************************)

SP == 32
CR == 13
LF == 10
COLON == 58
COMMA == 44

\* _GOODBYE_MESSAGE
Goodbye == Bytes("Goodbye")

RECURSIVE Cat(_)
Cat(ss) == IF ss = <<>> THEN <<>> ELSE Head(ss) \o Cat(Tail(ss))

\* s with its i-th byte changed.
Altered(s, i) == [s EXCEPT ![i] = (@ + 1) % 256]

\* _receive_bytes(socket, n) as one step.  With n bytes in flight it returns
\* them.  Otherwise the server may add one of segs, once per phase, and the
\* call returns n bytes if that suffices; or the transport gives up, the
\* read returning no bytes ("closed") or raising socket.timeout.
RecvOutcomes(n, segs) ==
    LET Got(st, m) ==
            [ok |-> TRUE, data |-> SubSeq(st, 1, n),
             rest |-> SubSeq(st, n + 1, Len(st)), more |-> m, err |-> "none"]
        Lost(e) ==
            [ok |-> FALSE, data |-> <<>>, rest |-> <<>>, more |-> FALSE, err |-> e]
    IN  IF Len(inbuf) >= n THEN {Got(inbuf, more)}
        ELSE {Got(inbuf \o s, FALSE) : s \in {x \in segs : more /\ Len(inbuf \o x) >= n}}
                \cup {Lost(e) : e \in {"closed", "timeout"}}

\* socket.send(bytes) returns, or raises socket.error.
SendOutcomes == {"sent", "socket.error"}

SendError(o) == IF o = "sent" THEN "none" ELSE o

\* One socket.send call and what reached the wire.
Send(kind, o) ==
    /\ nSend' = nSend + 1
    /\ wire' = IF o = "sent" THEN Append(wire, kind) ELSE wire

\* An exception raised in run() leaves the try block for its finally
\* clause; closing-handshake I/O lying on that path would be a defect.
UnwindIntoClosing == "close_send"

Unwind == "finally"

\* The statement completes (e = "none") and control moves to next, or it
\* raises e.
Step(e, next) ==
    IF e = "none" THEN pc' = next /\ UNCHANGED excVars
    ELSE exc' = e /\ excAt' = pc /\ pc' = Unwind

(***************************************************************************)
(* EchoClient.run: connect, TLS wrapper, handshake selection               *)
(***************************************************************************)

\* A run that starts the message loop without shaking hands.
NoHandshake(version) == "loop_send"

\* self._create_handshake() and the first statement of its handshake().
HandshakeStart(version) ==
    IF version = "hixie75" THEN "hs75_send" ELSE "hs_method"

\* self._socket.connect((host, port))
Connect ==
    /\ pc = "connect"
    /\ \E e \in {"none", "socket.error", "timeout"} :
        Step(e, IF use_tls THEN "tls" ELSE HandshakeStart(protocol_version))
    /\ UNCHANGED <<optVars, sockVars, srvVars, reqVars, established, respVars,
                   loopVars, closing, sendVars, nRecv, histVars, codecVars, keyVars,
                   recvVars>>

\* self._socket = _TLSSocket(self._socket); socket.ssl() may raise.
TlsWrap ==
    /\ pc = "tls"
    /\ \E e \in {"none", "sslerror"} :
        /\ sock' = IF e = "none" THEN "tls" ELSE sock
        /\ Step(e, HandshakeStart(protocol_version))
    /\ UNCHANGED <<optVars, rawClosed, srvVars, reqVars, established, respVars,
                   loopVars, closing, sendVars, nRecv, histVars, codecVars, keyVars,
                   recvVars>>

(***************************************************************************)
(* WebSocketHandshake.handshake: the request                               *)
(***************************************************************************)

RequestFields ==
    {"Upgrade", "Connection", "Host", "Origin", "Sec-WebSocket-Key1",
     "Sec-WebSocket-Key2", "Sec-WebSocket-Draft"}

\* The numbers of two generated keys, as _generate_sec_websocket_key may
\* return them (spaces = 1 allows every 32-bit number).
NumberPairDraws == {<<U32(7), U32(0)>>, <<U32Max, U32(259)>>}

\* _generate_key3(): eight random bytes.
Key3Draws == {<<1, 2, 3, 4, 5, 6, 7, 8>>, <<255, 0, 13, 10, 32, 58, 0, 255>>}

\* Send the request line; then build the field list, generating both keys.
HsSendMethod ==
    /\ pc = "hs_method"
    /\ hsAttempts' = hsAttempts + 1
    /\ \E o \in SendOutcomes :
       \E np \in IF o = "sent" THEN NumberPairDraws ELSE {<<number1, number2>>} :
        /\ Send("method", o)
        /\ Step(SendError(o), "hs_fields")
        /\ number1' = np[1]
        /\ number2' = np[2]
        /\ fields' = IF o = "sent" THEN RequestFields ELSE fields
    /\ UNCHANGED <<optVars, sockVars, srvVars, sendIx, key3, established, respVars,
                   loopVars, closing, nRecv, histVars, codecVars, keyVars,
                   recvVars>>

\* A loop that drops another field with the one it has sent.
UnsentSkipsOne(fs, f) == fs \ {f, CHOOSE g \in fs : TRUE}

\* The fields the loop has still to send once it has sent f.
Unsent(fs, f) == fs \ {f}

\* random.shuffle(fields); for field in fields: self._socket.send(field)
HsSendField ==
    /\ pc = "hs_fields"
    /\ \E f \in fields :
       \E o \in SendOutcomes :
        /\ fields' = Unsent(fields, f)
        /\ fieldSends' = IF o = "sent" THEN [fieldSends EXCEPT ![f] = @ + 1]
                         ELSE fieldSends
        /\ Send("field", o)
        /\ Step(SendError(o), IF Unsent(fields, f) = {} THEN "hs_blank" ELSE "hs_fields")
    /\ UNCHANGED <<optVars, sockVars, srvVars, hsAttempts, sendIx, number1, number2,
                   key3, established, respVars, loopVars, closing, nRecv,
                   closeOps, hs75Read, hdrRead, codecVars, keyVars,
                   recvVars>>

\* self._socket.send('\r\n'); self._key3 = self._generate_key3()
HsSendBlank ==
    /\ pc = "hs_blank"
    /\ \E o \in SendOutcomes :
        /\ Send("blank", o)
        /\ Step(SendError(o), "hs_key3")
        /\ key3' \in IF o = "sent" THEN Key3Draws ELSE {key3}
    /\ UNCHANGED <<optVars, sockVars, srvVars, hsAttempts, fields, sendIx, number1,
                   number2, established, respVars, loopVars, closing, nRecv,
                   histVars, codecVars, keyVars,
                   recvVars>>

\* self._socket.send(self._key3); the server may now answer.
HsSendKey3 ==
    /\ pc = "hs_key3"
    /\ \E o \in SendOutcomes :
        /\ Send("key3", o)
        /\ Step(SendError(o), "hs_status")
    /\ more' = TRUE
    /\ UNCHANGED <<optVars, sockVars, inbuf, reqVars, established, respVars,
                   loopVars, closing, nRecv, histVars, codecVars, keyVars,
                   recvVars>>

(***************************************************************************)
(* WebSocketHandshake.handshake: the response                              *)
(***************************************************************************)

\* The hash of the challenge.  MD5 itself is out of reach of model checking;
\* this digest of sixteen bytes depends on every byte and on its place.
RECURSIVE WeightedSum(_, _, _)
WeightedSum(s, i, j) ==
    IF j > Len(s) THEN 0
    ELSE ((i + j) * (s[j] + 1) + WeightedSum(s, i, j + 1)) % 251

md5_hash(s) == [i \in 1..16 |-> WeightedSum(s, i, 1)]

\* A challenge built from the numbers in the wrong order.
ChallengeSwapped(n1, n2, k3) == PackU32(n2) \o PackU32(n1) \o k3

\* challenge = pack("!I", number1) + pack("!I", number2) + key3
Challenge(n1, n2, k3) == PackU32(n1) \o PackU32(n2) \o k3

\* A handshake that takes any sixteen bytes for the response.
AnyReplyOk(expected, r) == TRUE

\* if expected != reply: raise
ChallengeResponseOk(expected, r) == expected = r

\* The least i >= from with s[i] = x, or 0.
IndexFrom(s, x, from) ==
    IF \E i \in from..Len(s) : s[i] = x
    THEN CHOOSE i \in from..Len(s) :
            s[i] = x /\ \A j \in from..(i - 1) : s[j] # x
    ELSE 0

IsDigit(b) == b >= 48 /\ b <= 57

EndsWithCRLF(s) == Len(s) >= 2 /\ s[Len(s) - 1] = CR /\ s[Len(s)] = LF

\* re.match("[^ ]* ([^ ]*) .*", field): group(1), the bytes between the
\* first two spaces; no match without two spaces.
MatchCode(f) ==
    LET i == IndexFrom(f, SP, 1)
        j == IF i = 0 THEN 0 ELSE IndexFrom(f, SP, i + 1)
    IN  IF j = 0 THEN Raise("no code found") ELSE Return(SubSeq(f, i + 1, j - 1))

\* A check that takes every three-digit code.
CheckStatusLineAnyCode(f) ==
    IF Len(f) < 7 \/ ~EndsWithCRLF(f) THEN "wrong status line"
    ELSE LET m == MatchCode(f) IN
         IF ~m.ok THEN m.err
         ELSE IF ~(Len(m.val) >= 3 /\ \A k \in 1..3 : IsDigit(m.val[k]))
            THEN "wrong code"
         ELSE "none"

\* The checks of the status line: "none", or the exception raised.
CheckStatusLine(f) ==
    IF Len(f) < 7 \/ ~EndsWithCRLF(f) THEN "wrong status line"
    ELSE LET m == MatchCode(f) IN
         IF ~m.ok THEN m.err
         ELSE IF ~(Len(m.val) >= 3 /\ \A k \in 1..3 : IsDigit(m.val[k]))
            THEN "wrong code"
         ELSE IF m.val # Bytes("101") THEN "unexpected code"
         ELSE "none"

IsUpper(b) == b >= 65 /\ b <= 90

\* str.lower()
Lower(s) == [i \in 1..Len(s) |-> IF IsUpper(s[i]) THEN s[i] + 32 ELSE s[i]]

\* A map that keeps only the last value of a name.
AddFieldReplaces(h, n, v) ==
    IF n \in DOMAIN h THEN [h EXCEPT ![n] = <<v>>]
    ELSE h @@ (n :> <<v>>)

\* fields.setdefault(name, []).append(value)
AddField(h, n, v) ==
    IF n \in DOMAIN h THEN [h EXCEPT ![n] = Append(@, v)]
    ELSE h @@ (n :> <<v>>)

HUpgrade == Bytes("upgrade")
HConnection == Bytes("connection")
HOrigin == Bytes("sec-websocket-origin")
HLocation == Bytes("sec-websocket-location")

\* The names the two error messages look up.
HOriginMisspelt == Bytes("sec-sebsocket-origin")
HLocationMisspelt == Bytes("sec-sebsocket-location")

\* A check that forgets the count of sec-websocket-location.
CheckFieldsNoLocation(h) ==
    IF HUpgrade \notin DOMAIN h THEN "KeyError"
    ELSE IF Len(h[HUpgrade]) # 1 THEN "not one ugprade"
    ELSE IF HConnection \notin DOMAIN h THEN "KeyError"
    ELSE IF Len(h[HConnection]) # 1 THEN "not one connection"
    ELSE IF HOrigin \notin DOMAIN h THEN "KeyError"
    ELSE IF Len(h[HOrigin]) # 1 THEN
        IF HOriginMisspelt \in DOMAIN h THEN "not one sec-websocket-origin"
        ELSE "KeyError"
    ELSE IF h[HUpgrade][1] # Bytes("WebSocket") THEN "unexpected upgrade"
    ELSE IF Lower(h[HConnection][1]) # Bytes("upgrade") THEN "unexpected connection"
    ELSE "none"

\* A check that takes the upgrade value in any letter case.
CheckFieldsUpgradeAnyCase(h) ==
    IF HUpgrade \notin DOMAIN h THEN "KeyError"
    ELSE IF Len(h[HUpgrade]) # 1 THEN "not one ugprade"
    ELSE IF HConnection \notin DOMAIN h THEN "KeyError"
    ELSE IF Len(h[HConnection]) # 1 THEN "not one connection"
    ELSE IF HOrigin \notin DOMAIN h THEN "KeyError"
    ELSE IF Len(h[HOrigin]) # 1 THEN
        IF HOriginMisspelt \in DOMAIN h THEN "not one sec-websocket-origin"
        ELSE "KeyError"
    ELSE IF HLocation \notin DOMAIN h THEN "KeyError"
    ELSE IF Len(h[HLocation]) # 1 THEN
        IF HLocationMisspelt \in DOMAIN h THEN "not one sec-websocket-location"
        ELSE "KeyError"
    ELSE IF Lower(h[HUpgrade][1]) # Bytes("websocket") THEN "unexpected upgrade"
    ELSE IF Lower(h[HConnection][1]) # Bytes("upgrade") THEN "unexpected connection"
    ELSE "none"

\* Step 41, the checks of /fields/: "none", or the exception raised.  A
\* missing name raises KeyError at the lookup; so do the messages of the
\* two sec-websocket checks, which look up a misspelt name.
CheckFields(h) ==
    IF HUpgrade \notin DOMAIN h THEN "KeyError"
    ELSE IF Len(h[HUpgrade]) # 1 THEN "not one ugprade"
    ELSE IF HConnection \notin DOMAIN h THEN "KeyError"
    ELSE IF Len(h[HConnection]) # 1 THEN "not one connection"
    ELSE IF HOrigin \notin DOMAIN h THEN "KeyError"
    ELSE IF Len(h[HOrigin]) # 1 THEN
        IF HOriginMisspelt \in DOMAIN h THEN "not one sec-websocket-origin"
        ELSE "KeyError"
    ELSE IF HLocation \notin DOMAIN h THEN "KeyError"
    ELSE IF Len(h[HLocation]) # 1 THEN
        IF HLocationMisspelt \in DOMAIN h THEN "not one sec-websocket-location"
        ELSE "KeyError"
    ELSE IF h[HUpgrade][1] # Bytes("WebSocket") THEN "unexpected upgrade"
    ELSE IF Lower(h[HConnection][1]) # Bytes("upgrade") THEN "unexpected connection"
    ELSE "none"

\* Status lines a server may answer with.
StatusSegs ==
    {Bytes("HTTP/1.1 101 OK\r\n"), Bytes(" 101 \r\n"), Bytes("101 \r\n"),
     Bytes("H 101\r\n"), Bytes("H 200 OK\r\n"), Bytes("H 1012 X\r\n"),
     Bytes("H 10 1 X\r\n"), Bytes("H  101 X\r\n"), Bytes("H 101 X\n"),
     Bytes("H 101 X"), Bytes("H\r 101 \r\n")}

LUpgrade == Bytes("Upgrade: WebSocket\r\n")
LConnection == Bytes("Connection: Upgrade\r\n")
LOrigin == Bytes("Sec-WebSocket-Origin: o\r\n")
LLocation == Bytes("Sec-WebSocket-Location: l\r\n")
LEnd == Bytes("\r\n")

\* Header blocks a server may answer with.
HeaderSegs ==
    {Cat(<<LUpgrade, LConnection, LOrigin, LLocation, LEnd>>),
     Cat(<<Bytes("UPGRADE:WebSocket\r\n"), Bytes("connection:   UPGRADE\r\n"),
           LLocation, LOrigin, Bytes("X: y\r\n"), LEnd>>),
     \* one required header missing
     Cat(<<LConnection, LOrigin, LLocation, LEnd>>),
     Cat(<<LUpgrade, LOrigin, LLocation, LEnd>>),
     Cat(<<LUpgrade, LConnection, LLocation, LEnd>>),
     Cat(<<LUpgrade, LConnection, LOrigin, LEnd>>),
     \* one required header twice
     Cat(<<LUpgrade, LUpgrade, LConnection, LOrigin, LLocation, LEnd>>),
     Cat(<<LUpgrade, LConnection, LConnection, LOrigin, LLocation, LEnd>>),
     Cat(<<LUpgrade, LConnection, LOrigin, Bytes("SEC-WEBSOCKET-ORIGIN: p\r\n"),
           LLocation, LEnd>>),
     Cat(<<LUpgrade, LConnection, LOrigin, LLocation, LLocation, LEnd>>),
     Cat(<<LUpgrade, LConnection, LOrigin, LOrigin, LLocation,
           Bytes("Sec-Sebsocket-Origin: q\r\n"), LEnd>>),
     \* wrong values
     Cat(<<Bytes("Upgrade: websocket\r\n"), LConnection, LOrigin, LLocation, LEnd>>),
     Cat(<<LUpgrade, Bytes("Connection: close\r\n"), LOrigin, LLocation, LEnd>>),
     Cat(<<Bytes("Upgrade: WebSocket \r\n"), LConnection, LOrigin, LLocation,
           LEnd>>),
     \* other origin and location values
     Cat(<<LUpgrade, Bytes("Connection: UpGrAdE\r\n"),
           Bytes("Sec-WebSocket-Origin:\r\n"),
           Bytes("Sec-WebSocket-Location: ws://x/ y\r\n"), LEnd>>),
     \* malformed lines and blocks
     Cat(<<LUpgrade, Bytes("Connection: Upgrade\rX")>>),
     Cat(<<LUpgrade, Bytes("Conn\n")>>),
     Cat(<<LUpgrade, Bytes("Connection: Up\n")>>),
     Cat(<<LUpgrade, Bytes("Connection:\r\n"), LOrigin, LLocation, LEnd>>),
     Cat(<<LUpgrade, LConnection, LOrigin, LLocation, Bytes("\rX")>>),
     Cat(<<LUpgrade, LConnection, LOrigin, LLocation, Bytes("X-Cut\r\n")>>),
     Cat(<<LUpgrade, LConnection, LOrigin>>),
     LEnd}

\* What a server may send for the challenge response.
ReplySegs(expected) ==
    {expected, Altered(expected, 1), Altered(expected, 16),
     SubSeq(expected, 1, 15)}

\* Read the status line byte by byte up to LF, then check it.
HsReadStatus ==
    /\ pc = "hs_status"
    /\ nRecv' = nRecv + 1
    /\ \E r \in RecvOutcomes(1, StatusSegs) :
        LET f == field \o r.data
            done == r.ok /\ r.data = <<LF>>
            e == IF ~r.ok THEN r.err
                 ELSE IF done THEN CheckStatusLine(f) ELSE "none"
        IN  /\ field' = f
            /\ inbuf' = r.rest
            /\ more' = IF done /\ e = "none" THEN TRUE ELSE r.more
            /\ Step(e, IF done THEN "hs_name" ELSE "hs_status")
    /\ UNCHANGED <<optVars, sockVars, reqVars, established, name, value, hdrs,
                   blockRecv, reply, expIx, skipPos, loopVars, closing, sendVars,
                   histVars, codecVars, keyVars,
                   recvVars>>

\* _read_name: one byte.  CR returns None and ends _read_fields.
HsReadName ==
    /\ pc = "hs_name"
    /\ nRecv' = nRecv + 1
    /\ \E r \in RecvOutcomes(1, HeaderSegs) :
        LET ch == r.data[1]
            e == IF ~r.ok THEN r.err
                 ELSE IF ch = LF THEN "unexpected LF when reading header name"
                 ELSE "none"
        IN  /\ name' = IF r.ok /\ ch \notin {CR, LF, COLON}
                       THEN name \o Lower(r.data) ELSE name
            /\ inbuf' = r.rest
            /\ hdrRead' = hdrRead \o r.data
            /\ more' = r.more
            /\ Step(e, IF ch = CR THEN "hs_block_lf"
                       ELSE IF ch = COLON THEN "hs_spaces" ELSE "hs_name")
    /\ UNCHANGED <<optVars, sockVars, reqVars, established, field, value, hdrs,
                   blockRecv, reply, expIx, skipPos, loopVars, closing, sendVars,
                   closeOps, fieldSends, hs75Read, codecVars, keyVars,
                   recvVars>>

\* _skip_spaces: one byte; the first byte that is no space goes through
\* the first pass of _read_value.
HsSkipSpaces ==
    /\ pc = "hs_spaces"
    /\ nRecv' = nRecv + 1
    /\ \E r \in RecvOutcomes(1, HeaderSegs) :
        LET ch == r.data[1]
            e == IF ~r.ok THEN r.err
                 ELSE IF ch = LF THEN "unexpected LF when reading header value"
                 ELSE "none"
        IN  /\ value' = IF r.ok /\ ch \notin {SP, CR, LF} THEN <<ch>> ELSE <<>>
            /\ inbuf' = r.rest
            /\ hdrRead' = hdrRead \o r.data
            /\ more' = r.more
            /\ Step(e, IF ch = SP THEN "hs_spaces"
                       ELSE IF ch = CR THEN "hs_field_lf" ELSE "hs_value")
    /\ UNCHANGED <<optVars, sockVars, reqVars, established, field, name, hdrs,
                   blockRecv, reply, expIx, skipPos, loopVars, closing, sendVars,
                   closeOps, fieldSends, hs75Read, codecVars, keyVars,
                   recvVars>>

\* _read_value: one more byte.
HsReadValue ==
    /\ pc = "hs_value"
    /\ nRecv' = nRecv + 1
    /\ \E r \in RecvOutcomes(1, HeaderSegs) :
        LET ch == r.data[1]
            e == IF ~r.ok THEN r.err
                 ELSE IF ch = LF THEN "unexpected LF when reading header value"
                 ELSE "none"
        IN  /\ value' = IF r.ok /\ ch \notin {CR, LF} THEN Append(value, ch) ELSE value
            /\ inbuf' = r.rest
            /\ hdrRead' = hdrRead \o r.data
            /\ more' = r.more
            /\ Step(e, IF ch = CR THEN "hs_field_lf" ELSE "hs_value")
    /\ UNCHANGED <<optVars, sockVars, reqVars, established, field, name, hdrs,
                   blockRecv, reply, expIx, skipPos, loopVars, closing, sendVars,
                   closeOps, fieldSends, hs75Read, codecVars, keyVars,
                   recvVars>>

\* Step 37-38: the LF after a value, then the entry is added to the map.
HsFieldLF ==
    /\ pc = "hs_field_lf"
    /\ nRecv' = nRecv + 1
    /\ \E r \in RecvOutcomes(1, HeaderSegs) :
        LET e == IF ~r.ok THEN r.err
                 ELSE IF r.data # <<LF>> THEN "expected LF after line"
                 ELSE "none"
        IN  /\ hdrs' = IF e = "none" THEN AddField(hdrs, name, value) ELSE hdrs
            /\ name' = IF e = "none" THEN <<>> ELSE name
            /\ value' = IF e = "none" THEN <<>> ELSE value
            /\ inbuf' = r.rest
            /\ hdrRead' = hdrRead \o r.data
            /\ more' = r.more
            /\ Step(e, "hs_name")
    /\ UNCHANGED <<optVars, sockVars, reqVars, established, field, blockRecv, reply,
                   expIx, skipPos, loopVars, closing, sendVars, closeOps, fieldSends, hs75Read, codecVars, keyVars,
                   recvVars>>

\* Step 40-41: the LF that ends the block (its error message names
\* undefined variables: NameError), then the checks of the header map.
HsBlockLF ==
    /\ pc = "hs_block_lf"
    /\ nRecv' = nRecv + 1
    /\ \E r \in RecvOutcomes(1, HeaderSegs) :
        LET e == IF ~r.ok THEN r.err
                 ELSE IF r.data # <<LF>> THEN "NameError"
                 ELSE CheckFields(hdrs)
        IN  /\ blockRecv' = IF r.ok /\ r.data = <<LF>> THEN nRecv + 1 ELSE blockRecv
            /\ inbuf' = r.rest
            /\ hdrRead' = hdrRead \o r.data
            /\ more' = IF e = "none" THEN TRUE ELSE r.more
            /\ Step(e, "hs_reply")
    /\ UNCHANGED <<optVars, sockVars, reqVars, established, field, name, value, hdrs,
                   reply, expIx, skipPos, loopVars, closing, sendVars, closeOps, fieldSends, hs75Read, codecVars,
                   keyVars,
                   recvVars>>

\* Step 42-46: read sixteen bytes and compare them with the digest of the
\* challenge; then 'Connection established' and the loop begins.
HsReadReply ==
    /\ pc = "hs_reply"
    /\ nRecv' = nRecv + 1
    /\ LET expected == md5_hash(Challenge(number1, number2, key3))
       IN  \E r \in RecvOutcomes(16, ReplySegs(expected)) :
            LET e == IF ~r.ok THEN r.err
                     ELSE IF ~ChallengeResponseOk(expected, r.data)
                        THEN "challenge/response failed"
                     ELSE "none"
            IN  /\ reply' = r.data
                /\ inbuf' = r.rest
                /\ more' = r.more
                /\ established' = (e = "none")
                /\ Step(e, "loop_send")
    /\ UNCHANGED <<optVars, sockVars, reqVars, field, name, value, hdrs, blockRecv,
                   expIx, skipPos, loopVars, closing, sendVars, histVars, codecVars, keyVars,
                   recvVars>>

(***************************************************************************)
(* WebSocketHixie75Handshake.handshake                                     *)
(***************************************************************************)

\* The request parts in the order sent.
Hixie75Request == <<"method", "field", "field", "field", "field", "blank">>

\* An expected response that ends with the status line.
ExpectedStatusLineOnly == Bytes("HTTP/1.1 101 Web Socket Protocol Handshake\r\n")

_EXPECTED_RESPONSE ==
    Cat(<<Bytes("HTTP/1.1 101 Web Socket Protocol Handshake\r\n"),
          LUpgrade, LConnection>>)

\* Responses a Hixie 75 server may answer with.
Hixie75Segs ==
    {_EXPECTED_RESPONSE \o LEnd,
     \* a first frame already behind the blank line
     Cat(<<_EXPECTED_RESPONSE, LEnd, <<0, 97, 255>> >>),
     Cat(<<_EXPECTED_RESPONSE, Bytes("X: y\r\n\r\n"), <<0, 97, 255>> >>),
     _EXPECTED_RESPONSE \o Bytes("X: y\r\n\r\n"),
     _EXPECTED_RESPONSE \o Bytes("X: y\r\r\n\r\n"),
     _EXPECTED_RESPONSE \o Bytes("\r\n\r\n"),
     _EXPECTED_RESPONSE \o Bytes("X: y\r\n"),
     Cat(<<Bytes("HTTP/1.1 200 OK\r\n"), LUpgrade, LConnection, LEnd>>),
     Cat(<<Bytes("HTTP/1.1 101 Web Socket Protocol Handshake\r\n"),
           LConnection, LUpgrade, LEnd>>),
     Bytes("HTTP/1.1 101 Web Socket")}

\* The six sends of the request, one a step.
Hs75Send ==
    /\ pc = "hs75_send"
    /\ hsAttempts' = IF sendIx = 1 THEN hsAttempts + 1 ELSE hsAttempts
    /\ \E o \in SendOutcomes :
        /\ Send(Hixie75Request[sendIx], o)
        /\ Step(SendError(o),
                IF sendIx = Len(Hixie75Request) THEN "hs75_expect" ELSE "hs75_send")
    /\ sendIx' = sendIx + 1
    /\ more' = (sendIx = Len(Hixie75Request))
    /\ UNCHANGED <<optVars, sockVars, inbuf, fields, number1, number2, key3,
                   established, respVars, loopVars, closing, nRecv, histVars, codecVars,
                   keyVars,
                   recvVars>>

\* for expected_char in _EXPECTED_RESPONSE: one byte.
Hs75Expect ==
    /\ pc = "hs75_expect"
    /\ nRecv' = nRecv + 1
    /\ \E r \in RecvOutcomes(1, Hixie75Segs) :
        LET e == IF ~r.ok THEN r.err
                 ELSE IF r.data[1] # _EXPECTED_RESPONSE[expIx] THEN "Handshake failure"
                 ELSE "none"
        IN  /\ expIx' = IF e = "none" THEN expIx + 1 ELSE expIx
            /\ inbuf' = r.rest
            /\ hs75Read' = hs75Read \o r.data
            /\ more' = r.more
            /\ Step(e, IF expIx = Len(_EXPECTED_RESPONSE) THEN "hs75_skip"
                       ELSE "hs75_expect")
    /\ UNCHANGED <<optVars, sockVars, reqVars, established, field, name, value, hdrs,
                   blockRecv, reply, skipPos, loopVars, closing, sendVars, closeOps, fieldSends, hdrRead, codecVars,
                   keyVars,
                   recvVars>>

Terminator == Bytes("\r\n\r\n")

\* _skip_headers: one byte; on the fourth terminator byte the handshake
\* returns, 'Connection established' is logged and the loop begins.
Hs75Skip ==
    /\ pc = "hs75_skip"
    /\ nRecv' = nRecv + 1
    /\ \E r \in RecvOutcomes(1, Hixie75Segs) :
        LET received == r.data[1]
            p == IF ~r.ok THEN skipPos
                 ELSE IF received = Terminator[skipPos + 1] THEN skipPos + 1
                 ELSE IF received = Terminator[1] THEN 1
                 ELSE 0
        IN  /\ skipPos' = p
            /\ inbuf' = r.rest
            /\ hs75Read' = hs75Read \o r.data
            /\ more' = r.more
            /\ established' = (r.ok /\ p = Len(Terminator))
            /\ Step(IF r.ok THEN "none" ELSE r.err,
                    IF p = Len(Terminator) THEN "loop_send" ELSE "hs75_skip")
    /\ UNCHANGED <<optVars, sockVars, reqVars, field, name, value, hdrs, blockRecv,
                   reply, expIx, loopVars, closing, sendVars, closeOps, fieldSends, hdrRead, codecVars, keyVars,
                   recvVars>>

(***************************************************************************)
(* EchoClient.run: the message loop                                        *)
(***************************************************************************)

\* str.split(sep): the pieces between the separators, at least one.
RECURSIVE Split(_, _)
Split(s, sep) ==
    LET i == IndexFrom(s, sep, 1)
    IN  IF i = 0 THEN <<s>>
        ELSE <<SubSeq(s, 1, i - 1)>> \o Split(SubSeq(s, i + 1, Len(s)), sep)

\* self._options.message.split(',')
Lines == Split(message, COMMA)

\* What a server may send back for a frame.
EchoSegs(f) ==
    {f, Altered(f, 1), Altered(f, Len(f)), Altered(f, (Len(f) + 1) \div 2),
     SubSeq(f, 1, Len(f) - 1), f \o <<0>>}

\* A loop that only parses the echo.
EchoUnchecked(r, f) == TRUE

\* if received != frame: raise Exception('Incorrect echo')
EchoMatches(r, f) == r = f

\* A closing handshake that always opens with the client's close frame.
ClosingStartClientFirst ==
    IF protocol_version = "hixie75" THEN "finally" ELSE "close_send"

\* A closing handshake that always waits for the server's close frame.
ClosingStartServerFirst ==
    IF protocol_version = "hixie75" THEN "finally" ELSE "close_wait"

\* A Hixie 75 client that runs the generic closing handshake.
ClosingStartGeneric ==
    IF Lines[Len(Lines)] = Goodbye THEN "close_wait" ELSE "close_send"

\* _do_closing_handshake of the three clients: the statement it starts at.
ClosingStart ==
    IF protocol_version = "hixie75" THEN "finally"
    ELSE IF Lines[Len(Lines)] = Goodbye THEN "close_wait"
    ELSE "close_send"

\* frame = self._create_text_frame(line); self._socket.send(frame)
LoopSend ==
    /\ pc = "loop_send"
    /\ LET f == CreateTextFrame(protocol_version, Lines[idx])
       IN  \E o \in SendOutcomes :
            /\ curFrame' = f.val
            /\ Send("frame", o)
            /\ sentFrames' = IF o = "sent" THEN Append(sentFrames, f.val)
                             ELSE sentFrames
            /\ Step(SendError(o), "loop_recv")
    /\ more' = TRUE
    /\ UNCHANGED <<optVars, sockVars, inbuf, reqVars, established, respVars, idx,
                   echoes, closing, nRecv, histVars, codecVars, keyVars,
                   recvVars>>

\* received = _receive_bytes(self._socket, len(frame)); parse; compare.
\* After the last line the closing handshake starts with closing = ''.
LoopRecv ==
    /\ pc = "loop_recv"
    /\ nRecv' = nRecv + 1
    /\ \E r \in RecvOutcomes(Len(curFrame), EchoSegs(curFrame)) :
        LET parsed == ParseFrameBriefly(protocol_version, r.data)
            e == IF ~r.ok THEN r.err
                 ELSE IF ~parsed.ok THEN parsed.err
                 ELSE IF ~EchoMatches(r.data, curFrame) THEN "Incorrect echo"
                 ELSE "none"
            last == idx = Len(Lines)
            next == IF last THEN ClosingStart ELSE "loop_send"
        IN  /\ echoes' = IF r.ok THEN Append(echoes, r.data) ELSE echoes
            /\ idx' = IF e = "none" /\ ~last THEN idx + 1 ELSE idx
            /\ inbuf' = r.rest
            /\ more' = IF e = "none" /\ next = "close_wait" THEN TRUE ELSE r.more
            /\ Step(e, next)
    /\ closing' = <<>>
    /\ UNCHANGED <<optVars, sockVars, reqVars, established, respVars, curFrame,
                   sentFrames, sendVars, histVars, codecVars, keyVars,
                   recvVars>>

(***************************************************************************)
(* EchoClient._do_closing_handshake_generic                                *)
(***************************************************************************)

\* chr(_OPCODE_CLOSE) + '\x00' for HyBi 01, '\xff\x00' for HyBi 00.
ClosingFrame ==
    IF protocol_version = "hybi01" THEN <<_OPCODE_CLOSE, 0>> ELSE <<255, 0>>

\* What a server may send in the closing handshake.
ClosingSegs == {ClosingFrame, Altered(ClosingFrame, 2), <<ClosingFrame[1]>>}

\* A finally clause that sends the close frame whatever was received.
ClosingFinallyAlways(c) == "close_send"

\* A finally clause that never sends the close frame.
ClosingFinallyNever(c) == "finally"

\* finally: if closing != closing_frame, send the close frame and read the
\* acknowledgment; otherwise the closing handshake is over.
ClosingFinally(c) == IF c # ClosingFrame THEN "close_send" ELSE "finally"

\* Server-initiated: closing = _receive_bytes(...).  An exception is caught
\* and printed; closing keeps its value.
CloseWait ==
    /\ pc = "close_wait"
    /\ nRecv' = nRecv + 1
    /\ \E r \in RecvOutcomes(Len(ClosingFrame), ClosingSegs) :
        /\ closing' = IF r.ok THEN r.data ELSE closing
        /\ inbuf' = r.rest
        /\ closeOps' = Append(closeOps, [op |-> "recv", ok |-> r.ok,
                                          data |-> r.data])
        /\ more' = r.more
        /\ pc' = IF r.ok /\ r.data = ClosingFrame THEN "close_ack"
                 ELSE ClosingFinally(IF r.ok THEN r.data ELSE closing)
    /\ UNCHANGED <<optVars, excVars, sockVars, reqVars, established, respVars,
                   loopVars, sendVars, fieldSends, hs75Read, hdrRead, codecVars, keyVars,
                   recvVars>>

\* Server-initiated: self._socket.send(closing_frame) as acknowledgment.
\* An exception is caught and printed; the finally clause finds
\* closing == closing_frame and does nothing.
CloseAck ==
    /\ pc = "close_ack"
    /\ \E o \in SendOutcomes :
        /\ Send("close", o)
        /\ closeOps' = Append(closeOps, [op |-> "send", ok |-> o = "sent",
                                          data |-> ClosingFrame])
    /\ pc' = ClosingFinally(closing)
    /\ UNCHANGED <<optVars, excVars, sockVars, srvVars, reqVars, established,
                   respVars, loopVars, closing, nRecv, fieldSends, hs75Read, hdrRead, codecVars, keyVars,
                   recvVars>>

\* The finally clause with closing != closing_frame: send the close frame.
\* Nothing catches an exception here.
CloseSend ==
    /\ pc = "close_send"
    /\ \E o \in SendOutcomes :
        /\ Send("close", o)
        /\ closeOps' = Append(closeOps, [op |-> "send", ok |-> o = "sent",
                                          data |-> ClosingFrame])
        /\ Step(SendError(o), "close_recv")
    /\ more' = TRUE
    /\ UNCHANGED <<optVars, sockVars, inbuf, reqVars, established, respVars,
                   loopVars, closing, nRecv, fieldSends, hs75Read, hdrRead, codecVars, keyVars,
                   recvVars>>

\* The finally clause: closing = _receive_bytes(...); a mismatch is logged.
\* Nothing catches an exception here.
CloseRecv ==
    /\ pc = "close_recv"
    /\ nRecv' = nRecv + 1
    /\ \E r \in RecvOutcomes(Len(ClosingFrame), ClosingSegs) :
        /\ closing' = IF r.ok THEN r.data ELSE closing
        /\ inbuf' = r.rest
        /\ closeOps' = Append(closeOps, [op |-> "recv", ok |-> r.ok,
                                          data |-> r.data])
        /\ more' = r.more
        /\ Step(IF r.ok THEN "none" ELSE r.err, "finally")
    /\ UNCHANGED <<optVars, sockVars, reqVars, established, respVars, loopVars,
                   sendVars, fieldSends, hs75Read, hdrRead, codecVars, keyVars,
                   recvVars>>

(***************************************************************************)
(* EchoClient.run: the finally clause                                      *)
(***************************************************************************)

\* close() of what self._socket is: socket.close() closes the raw socket,
\* _TLSSocket.close() does nothing.  The number of raw sockets closed.
SocketClose(s) == IF s = "raw" THEN 1 ELSE 0

\* finally: self._socket.close()
Finally ==
    /\ pc = "finally"
    /\ rawClosed' = rawClosed + SocketClose(sock)
    /\ pc' = "done"
    /\ UNCHANGED <<optVars, excVars, sock, srvVars, reqVars, established, respVars,
                   loopVars, closing, sendVars, nRecv, histVars, codecVars, keyVars,
                   recvVars>>

\* options.message as main() leaves it: the default u'Hello,日本'
\* among them.
MessageDraws ==
    {Bytes("a"), Bytes("a,b"), Bytes("Goodbye"), Bytes("a,Goodbye"),
     Bytes("Hello,") \o <<26085, 26412>>, Rep(97, 126)}

RunRest ==
    /\ exc = "none"
    /\ excAt = "none"
    /\ sock = "raw"
    /\ rawClosed = 0
    /\ inbuf = <<>>
    /\ more = FALSE
    /\ hsAttempts = 0
    /\ established = FALSE
    /\ fields = {}
    /\ sendIx = 1
    /\ number1 = U32(0)
    /\ number2 = U32(0)
    /\ key3 = <<>>
    /\ field = <<>>
    /\ name = <<>>
    /\ value = <<>>
    /\ hdrs = <<>>
    /\ blockRecv = 0
    /\ reply = <<>>
    /\ expIx = 1
    /\ skipPos = 0
    /\ idx = 1
    /\ curFrame = <<>>
    /\ sentFrames = <<>>
    /\ echoes = <<>>
    /\ closing = <<>>
    /\ wire = <<>>
    /\ nSend = 0
    /\ nRecv = 0
    /\ closeOps = <<>>
    /\ fieldSends = [f \in RequestFields |-> 0]
    /\ hs75Read = <<>>
    /\ hdrRead = <<>>

\* The client at rest, in the specifications that do not run it.
RunIdle ==
    /\ pc = "idle"
    /\ protocol_version = "hybi01"
    /\ use_tls = FALSE
    /\ message = <<>>
    /\ RunRest

\* self._socket = socket.socket() has run; run() is at its try block.
RunInit ==
    /\ pc = "connect"
    /\ protocol_version \in Variants
    /\ use_tls \in BOOLEAN
    /\ message \in MessageDraws
    /\ RunRest

(***************************************************************************)
(* SpecRecv: one call of _receive_bytes over a transport that chunks       *)
(***************************************************************************)

\* Bounds of the calls tried: the length asked for, the bytes the peer sends.
MaxRecvLen == 4

MaxStreamLen == 5

\* A stream of n bytes, all different.
StreamOf(n) == [i \in 1..n |-> 10 + i]

\* The bytes the socket.recv calls have returned, in order.
RECURSIVE Delivered(_)
Delivered(reads) ==
    IF reads = <<>> THEN <<>>
    ELSE Delivered(SubSeq(reads, 1, Len(reads) - 1)) \o reads[Len(reads)].data

\* The bytes of the stream no recv has returned yet.
Pending == SubSeq(rStream, Len(Delivered(rReads)) + 1, Len(rStream))

\* A loop that asks for one byte more than is missing.
RecvRequestOneMore(length) == length + 1

\* The size the loop passes to socket.recv.
RecvRequest(length) == length

\* socket.recv(size): between one and size of the pending bytes, as the
\* transport chunks them; no bytes once the peer has closed; or a timeout.
SocketRecv(size) ==
    {[err |-> "none", data |-> SubSeq(Pending, 1, k)] :
        k \in IF Pending = <<>> THEN {0} ELSE 1..Min(size, Len(Pending))}
        \cup {[err |-> "timeout", data |-> <<>>]}

\* No call is in progress.
RecvIdle ==
    /\ rPc = "idle"
    /\ rStream = <<>>
    /\ rN = 0
    /\ rLength = 0
    /\ rBytes = <<>>
    /\ rReads = <<>>
    /\ rResult = Raise("none")

\* _receive_bytes(socket, length) is entered: bytes = [].
RecvInit ==
    /\ rPc = "loop"
    /\ rN \in 0..MaxRecvLen
    /\ rStream \in {StreamOf(n) : n \in 0..MaxStreamLen}
    /\ rLength = rN
    /\ rBytes = <<>>
    /\ rReads = <<>>
    /\ rResult = Raise("none")

\* One turn of the loop: recv, the check for no bytes, append, subtract.
RecvRead ==
    /\ rPc = "loop"
    /\ rLength > 0
    /\ \E new \in SocketRecv(RecvRequest(rLength)) :
        /\ rReads' = Append(rReads, [asked |-> RecvRequest(rLength),
                                     err |-> new.err, data |-> new.data])
        /\ IF new.err # "none"
           THEN /\ rResult' = Raise(new.err)
                /\ rPc' = "raised"
                /\ UNCHANGED <<rBytes, rLength>>
           ELSE IF new.data = <<>>
           THEN /\ rResult' = Raise("connection closed unexpectedly")
                /\ rPc' = "raised"
                /\ UNCHANGED <<rBytes, rLength>>
           ELSE /\ rBytes' = Append(rBytes, new.data)
                /\ rLength' = rLength - Len(new.data)
                /\ UNCHANGED <<rPc, rResult>>
    /\ UNCHANGED <<rStream, rN, codecVars, keyVars, runVars>>

\* while length > 0 is false: return ''.join(bytes)
RecvReturn ==
    /\ rPc = "loop"
    /\ rLength <= 0
    /\ rResult' = Return(Cat(rBytes))
    /\ rPc' = "returned"
    /\ UNCHANGED <<rStream, rN, rLength, rBytes, rReads, codecVars, keyVars,
                   runVars>>

RecvNext == RecvRead \/ RecvReturn

(***************************************************************************)
(* Specifications                                                          *)
(***************************************************************************)

InitCodec == CodecInit /\ KeyIdle /\ RunIdle /\ RecvIdle

SpecCodec == InitCodec /\ [][CodecNext]_vars

InitKey == KeyInit /\ CodecIdle /\ RunIdle /\ RecvIdle

InitRecv == RecvInit /\ CodecIdle /\ KeyIdle /\ RunIdle

SpecRecv == InitRecv /\ [][RecvNext]_vars

SpecKey == InitKey /\ [][KeyNext]_vars

Init == RunInit /\ CodecIdle /\ KeyIdle /\ RecvIdle

Next ==
    \/ Connect
    \/ TlsWrap
    \/ HsSendMethod
    \/ HsSendField
    \/ HsSendBlank
    \/ HsSendKey3
    \/ HsReadStatus
    \/ HsReadName
    \/ HsSkipSpaces
    \/ HsReadValue
    \/ HsFieldLF
    \/ HsBlockLF
    \/ HsReadReply
    \/ Hs75Send
    \/ Hs75Expect
    \/ Hs75Skip
    \/ LoopSend
    \/ LoopRecv
    \/ CloseWait
    \/ CloseAck
    \/ CloseSend
    \/ CloseRecv
    \/ Finally

Spec == Init /\ [][Next]_vars

\* run() is one sequential thread and every transport call returns or
\* raises: a run that can take a step takes one.
SpecLive == Init /\ [][Next]_vars /\ WF_vars(Next)

(***************************************************************************)
(* Properties of a run                                                     *)
(***************************************************************************)

HandshakePcs ==
    {"hs_method", "hs_fields", "hs_blank", "hs_key3", "hs_status", "hs_name",
     "hs_spaces", "hs_value", "hs_field_lf", "hs_block_lf", "hs_reply",
     "hs75_send", "hs75_expect", "hs75_skip"}

LoopPcs == {"loop_send", "loop_recv"}

ClosingPcs == {"close_wait", "close_ack", "close_send", "close_recv"}

\* C2: in the closing handshake a receive that times out or finds the
\* connection closed, in either branch, never makes run() fail.
C2_ClosingReceiveNotFatal ==
    ~(exc \in {"closed", "timeout"} /\ excAt \in ClosingPcs)

\* C3: when run() has ended, on whatever path, with or without the TLS
\* wrapper, the transport has been released exactly once.
C3_ReleasedExactlyOnce ==
    pc = "done" => rawClosed = 1

\* C4: at most one handshake attempt is ever made; a text frame is sent or an
\* echo read only after exactly one attempt, which succeeded; a run that got
\* past connecting made exactly one; after a failed handshake no frame is
\* sent.
C4_OneHandshakeBeforeFrames ==
    /\ hsAttempts <= 1
    /\ (pc \in LoopPcs \/ sentFrames # <<>> \/ echoes # <<>>)
            => (hsAttempts = 1 /\ established)
    /\ (pc = "done" /\ excAt \notin {"connect", "tls"}) => hsAttempts = 1
    /\ excAt \in HandshakePcs
            => (~established /\ sentFrames = <<>> /\ echoes = <<>>
                /\ \A i \in 1..Len(wire) : wire[i] # "frame")

\* Two messages have been sent and echoed after the handshake.
C4_Witness ==
    /\ Len(sentFrames) = 2
    /\ Len(echoes) = 2
    /\ hsAttempts = 1
    /\ established

\* MD5(be32(number1) || be32(number2) || key3) of the keys sent.
ExpectedDigest == md5_hash(PackU32(number1) \o PackU32(number2) \o key3)

\* C5: in a HyBi 00 or HyBi 01 handshake whose status line and headers
\* passed, the connection is established if and only if the sixteen bytes
\* read next equal MD5(be32(number1) || be32(number2) || key3); on other
\* bytes the handshake fails there and nothing is ever sent as a frame.
C5_ChallengeDecides ==
    protocol_version # "hixie75" =>
        /\ established => reply # <<>>
        /\ reply # <<>> =>
            LET matches == reply = ExpectedDigest
            IN  /\ established <=> matches
                /\ ~matches
                    => (exc # "none" /\ excAt = "hs_reply" /\ sentFrames = <<>>)

\* A HyBi 01 handshake has succeeded on the matching sixteen bytes.
C5_Witness ==
    /\ protocol_version = "hybi01"
    /\ established
    /\ reply = ExpectedDigest
    /\ number1 = U32Max

\* len(fields[name]), 0 for a name the map lacks.
CountOfHeader(h, n) == IF n \in DOMAIN h THEN Len(h[n]) ELSE 0

RequiredHeaders == {HUpgrade, HConnection, HOrigin, HLocation}

\* C6: when the header map, complete with the block's final LF read, holds
\* zero or several values for a required name, the handshake has failed at
\* that point without another read: the challenge response is never read.
C6_CountsEnforced ==
    (blockRecv > 0 /\ \E n \in RequiredHeaders : CountOfHeader(hdrs, n) # 1)
        => /\ exc # "none"
           /\ excAt = "hs_block_lf"
           /\ pc \in {"finally", "done"}
           /\ nRecv = blockRecv
           /\ reply = <<>>
           /\ ~established

\* A block with sec-websocket-location twice has been read to its end.
C6_Witness ==
    /\ blockRecv > 0
    /\ CountOfHeader(hdrs, HLocation) = 2
    /\ CountOfHeader(hdrs, HUpgrade) = 1
    /\ pc = "done"

\* The LF of the status line has been read.
StatusRead == field # <<>> /\ field[Len(field)] = LF

\* At least 7 bytes, CRLF at the end, "101" between the first two spaces.
StatusAccepted(f) ==
    /\ Len(f) >= 7
    /\ f[Len(f) - 1] = CR
    /\ f[Len(f)] = LF
    /\ \E i \in 1..Len(f) : \E j \in (i + 1)..Len(f) :
        /\ f[i] = SP
        /\ f[j] = SP
        /\ \A k \in 1..(j - 1) : k # i => f[k] # SP
        /\ SubSeq(f, i + 1, j - 1) = <<49, 48, 49>>

\* C7: once the bytes up to the first LF are read, the HyBi handshake goes
\* on to the headers if and only if they are at least 7 bytes, end with
\* CRLF and hold "101" between the first two spaces; otherwise it fails
\* without reading a byte after that LF.
C7_StatusLineDecides ==
    (protocol_version # "hixie75" /\ StatusRead) =>
        /\ StatusAccepted(field) <=> excAt # "hs_status"
        /\ StatusAccepted(field) => pc # "hs_status"
        /\ excAt = "hs_status"
            => (exc # "none" /\ nRecv = Len(field) /\ pc \in {"finally", "done"})

\* The shortest status line that passes has been read and accepted.
C7_Witness ==
    /\ StatusRead
    /\ Len(field) = 7
    /\ pc = "hs_name"
    /\ nRecv = 7

\* C9: the frames sent are those of the comma-separated messages in list
\* order; a frame is sent only after every earlier one came back byte for
\* byte; an echo that differs from its frame fails the run and ends the
\* sending.
C9_StopAndWait ==
    /\ Len(sentFrames) <= Len(Lines)
    /\ Len(echoes) <= Len(sentFrames)
    /\ \A i \in 1..Len(sentFrames) :
        /\ sentFrames[i] = CreateTextFrame(protocol_version, Lines[i]).val
        /\ i < Len(sentFrames) => echoes[i] = sentFrames[i]
    /\ \A i \in 1..Len(echoes) :
        echoes[i] # sentFrames[i]
            => /\ i = Len(sentFrames)
               /\ exc # "none"
               /\ excAt = "loop_recv"
               /\ pc \in {"finally", "done"}

\* The second of two echoes differed from its frame and the run has ended.
C9_Witness ==
    /\ Len(Lines) = 2
    /\ Len(echoes) = 2
    /\ echoes[1] = sentFrames[1]
    /\ echoes[2] # sentFrames[2]
    /\ pc = "done"

\* The error that ends the run was raised in the handshake or the loop.
FatalBeforeClosing == excAt \in HandshakePcs \cup LoopPcs

\* The release step: nothing is sent and nothing is read.
ReleaseOnly ==
    /\ pc = "finally"
    /\ pc' = "done"
    /\ nSend' = nSend
    /\ nRecv' = nRecv
    /\ wire' = wire

\* C10: once a fatal error was raised in the handshake or the message loop,
\* no close frame has been sent and the only step left is the release: it
\* sends nothing and reads nothing.
C10_NoIoAfterFatal ==
    [](FatalBeforeClosing => \A i \in 1..Len(wire) : wire[i] # "close")
        /\ [][FatalBeforeClosing => ReleaseOnly]_vars

\* The first echo failed with a message left unsent, and the run ended.
C10_Witness ==
    /\ excAt = "loop_recv"
    /\ Len(Lines) = 2
    /\ Len(sentFrames) = 1
    /\ pc = "done"

\* The last of the comma-separated messages is 'Goodbye'.
GoodbyeLast == Lines[Len(Lines)] = Goodbye

\* The close frame of the variant: 0x01 0x00 (HyBi 01), 0xFF 0x00 (HyBi 00).
CloseFrameBytes == IF protocol_version = "hybi01" THEN <<1, 0>> ELSE <<255, 0>>

\* Every message has been sent and has come back unchanged.
AllEchoed == Len(sentFrames) = Len(Lines) /\ echoes = sentFrames

\* The run is in its closing handshake, has made a transport call of it, or
\* has come to the release without an exception.
ClosingReached ==
    \/ pc \in ClosingPcs
    \/ closeOps # <<>>
    \/ (pc \in {"finally", "done"} /\ exc = "none")

\* C11: HyBi 01 and HyBi 00 with 'Goodbye' last: the closing handshake
\* starts after all echoes with a read of len(close frame) bytes, before
\* any close frame is sent; if the bytes read are the variant's close frame
\* the client sends that frame once and makes no further read.
C11_ServerInitiatedClose ==
    (protocol_version # "hixie75" /\ ClosingReached /\ GoodbyeLast) =>
        /\ AllEchoed
        /\ pc # "close_wait" => closeOps # <<>>
        /\ closeOps # <<>> =>
            /\ closeOps[1].op = "recv"
            /\ closeOps[1].ok => Len(closeOps[1].data) = Len(CloseFrameBytes)
            /\ closeOps[1].data = CloseFrameBytes =>
                /\ Len(closeOps) <= 2
                /\ Len(closeOps) = 1 <=> pc = "close_ack"
                /\ Len(closeOps) = 2 =>
                    /\ closeOps[2].op = "send"
                    /\ closeOps[2].data = CloseFrameBytes
                    /\ pc \in {"finally", "done"}
                    /\ exc = "none"

\* 'a,Goodbye': the server's close frame was read and acknowledged.
C11_Witness ==
    /\ protocol_version = "hybi01"
    /\ Len(Lines) = 2
    /\ GoodbyeLast
    /\ pc = "done"
    /\ Len(closeOps) = 2
    /\ closeOps[1] = [op |-> "recv", ok |-> TRUE, data |-> <<1, 0>>]
    /\ closeOps[2] = [op |-> "send", ok |-> TRUE, data |-> <<1, 0>>]

\* C12: HyBi 01 and HyBi 00 with a last message other than 'Goodbye': the
\* closing handshake starts after all echoes by sending the close frame,
\* and once it is sent reads len(close frame) bytes, once.
C12_ClientInitiatedClose ==
    (protocol_version # "hixie75" /\ ClosingReached /\ ~GoodbyeLast) =>
        /\ AllEchoed
        /\ pc \in ClosingPcs => pc \in {"close_send", "close_recv"}
        /\ pc = "close_send" <=> closeOps = <<>>
        /\ Len(closeOps) <= 2
        /\ closeOps # <<>> =>
            /\ closeOps[1].op = "send"
            /\ closeOps[1].data = CloseFrameBytes
            /\ (closeOps[1].ok /\ Len(closeOps) = 1) <=> pc = "close_recv"
        /\ Len(closeOps) = 2 =>
            /\ closeOps[1].ok
            /\ closeOps[2].op = "recv"
            /\ closeOps[2].ok => Len(closeOps[2].data) = Len(CloseFrameBytes)
            /\ pc \in {"finally", "done"}

\* HyBi 00, 'a,b': the close frame was sent, then the acknowledgment read.
C12_Witness ==
    /\ protocol_version = "hybi00"
    /\ ~GoodbyeLast
    /\ Len(Lines) = 2
    /\ pc = "done"
    /\ Len(closeOps) = 2
    /\ closeOps[1].ok
    /\ closeOps[2] = [op |-> "recv", ok |-> TRUE, data |-> <<255, 0>>]

\* C13: under Hixie 75 no closing handshake runs: when the last echo has
\* been verified the run goes to the release with every send and every
\* read so far belonging to the handshake (six sends, one byte a read) or
\* to a message (one send, one read each), whatever the last message is.
C13_Hixie75NoClosing ==
    protocol_version = "hixie75" =>
        /\ pc \notin ClosingPcs
        /\ closeOps = <<>>
        /\ \A i \in 1..Len(wire) : wire[i] # "close"
        /\ (AllEchoed /\ exc = "none" /\ pc # "loop_recv") =>
            /\ pc \in {"finally", "done"}
            /\ nSend = Len(Hixie75Request) + Len(Lines)
            /\ nRecv = Len(hs75Read) + Len(Lines)
            /\ wire[Len(wire)] = "frame"

\* Hixie 75, 'a,Goodbye': both echoes verified, the run has ended.
C13_Witness ==
    /\ protocol_version = "hixie75"
    /\ GoodbyeLast
    /\ Len(Lines) = 2
    /\ AllEchoed
    /\ exc = "none"
    /\ pc = "done"

(***************************************************************************)
(* Properties of _receive_bytes and of the frame codec                     *)
(***************************************************************************)

\* The number of bytes the first k socket.recv calls returned.
ReturnedBy(k) == Len(Delivered(SubSeq(rReads, 1, k)))

\* C14: _receive_bytes(socket, n), however the transport chunks: every recv
\* asks for at least one byte and at most the bytes still missing, none is
\* made for n = 0, no byte beyond the first n is taken from the stream; it
\* returns exactly the first n bytes of the stream in order; and it raises
\* 'connection closed unexpectedly' if and only if a recv returned no bytes,
\* which happens only with fewer than n bytes accumulated.
C14_ReceiveExact ==
    rPc # "idle" =>
        /\ \A k \in 1..Len(rReads) :
            /\ rReads[k].asked >= 1
            /\ rReads[k].asked <= rN - ReturnedBy(k - 1)
            /\ Len(rReads[k].data) <= rReads[k].asked
        /\ rN = 0 => rReads = <<>>
        /\ ReturnedBy(Len(rReads)) <= rN
        /\ Delivered(rReads) = SubSeq(rStream, 1, ReturnedBy(Len(rReads)))
        /\ rPc = "returned" =>
            /\ rResult = Return(SubSeq(rStream, 1, rN))
            /\ ReturnedBy(Len(rReads)) = rN
            /\ Len(rStream) >= rN
        /\ rResult = Raise("connection closed unexpectedly")
            <=> /\ rReads # <<>>
                /\ rReads[Len(rReads)].err = "none"
                /\ rReads[Len(rReads)].data = <<>>
        /\ rResult = Raise("connection closed unexpectedly")
            => (rPc = "raised" /\ ReturnedBy(Len(rReads)) < rN)

\* Four bytes were returned from three chunks of a longer stream.
C14_Witness ==
    /\ rPc = "returned"
    /\ rN = 4
    /\ Len(rStream) = 5
    /\ Len(rReads) = 3
    /\ rResult = Return(<<11, 12, 13, 14>>)

\* The bytes of a 64-bit number held in four limbs, most significant first.
LimbBytes(x) ==
    <<x[1] \div 256, x[1] % 256, x[2] \div 256, x[2] % 256,
      x[3] \div 256, x[3] % 256, x[4] \div 256, x[4] % 256>>

\* C15: the HyBi 01 frame of a payload of encoded length L is 0x04, then
\* the byte L if L <= 125, the byte 126 and L in 16 bits big-endian if
\* 126 <= L < 2^16, the byte 127 and L in 64 bits big-endian if
\* 2^16 <= L < 2^63, then the payload bytes; for L >= 2^63 encoding fails.
C15_Hybi01Header ==
    /\ (cPc \in {"encoded", "decoded"} /\ cVariant = "hybi01") =>
        LET p == Utf8Encode(cPayload)
            L == Len(p)
        IN  /\ cFrame.ok
            /\ cFrame.val[1] = 4
            /\ L <= 125 => cFrame.val = <<4, L>> \o p
            /\ (126 <= L /\ L < 65536)
                => cFrame.val = <<4, 126, L \div 256, L % 256>> \o p
            /\ L >= 65536
                => cFrame.val = <<4, 127, 0, 0, 0, 0, 0, L \div 65536,
                                  (L \div 256) % 256, L % 256>> \o p
    /\ cPc = "header" =>
        LET below16 == hLength[1] = 0 /\ hLength[2] = 0 /\ hLength[3] = 0
        IN  /\ (below16 /\ hLength[4] <= 125)
                => hHeader = Return(<<4, hLength[4]>>)
            /\ (below16 /\ hLength[4] >= 126)
                => hHeader = Return(<<4, 126, hLength[4] \div 256,
                                     hLength[4] % 256>>)
            /\ (~below16 /\ hLength[1] < 32768)
                => hHeader = Return(<<4, 127>> \o LimbBytes(hLength))
            /\ hLength[1] >= 32768 => ~hHeader.ok

\* The header for a payload of 2^63 - 1 bytes has been built.
C15_Witness ==
    /\ cPc = "header"
    /\ hLength = <<32767, 65535, 65535, 65535>>
    /\ hHeader = Return(<<4, 127, 127, 255, 255, 255, 255, 255, 255, 255>>)

\* C16: HyBi 01 parsing fails for every frame whose first byte has a low
\* nibble other than 4 or any of its four high bits set, and for every
\* frame whose second byte has its top bit set; 0x04 0x05 'hello' parses to
\* 'hello' and 0x14 0x05 'hello' is rejected.
C16_Hybi01Rejects ==
    (cPc = "parsed" /\ cVariant = "hybi01") =>
        LET f == cFrame.val IN
        /\ (Len(f) >= 1 /\ (f[1] % 16 # 4 \/ f[1] >= 16)) => ~cDecoded.ok
        /\ (Len(f) >= 2 /\ f[2] >= 128) => ~cDecoded.ok
        /\ f = <<4, 5, 104, 101, 108, 108, 111>>
            => cDecoded = Return(<<104, 101, 108, 108, 111>>)
        /\ f = <<20, 5, 104, 101, 108, 108, 111>> => ~cDecoded.ok

\* 0x14 0x05 'hello' has been parsed, and rejected.
C16_Witness ==
    /\ cPc = "parsed"
    /\ cFrame.val = <<20, 5>> \o Hello
    /\ ~cDecoded.ok

(***************************************************************************)
(* Properties of the handshakes                                            *)
(***************************************************************************)

\* The upgrade value the handshake asks for.
WebSocketValue == Bytes("WebSocket")

\* The header block was read to its final LF with one value for each of
\* the four required names.
CountsOk ==
    /\ blockRecv > 0
    /\ \A n \in RequiredHeaders : CountOfHeader(hdrs, n) = 1

\* C17: with one value for each required name, the HyBi handshake fails at
\* the field checks if and only if the upgrade value is not exactly
\* 'WebSocket' or the connection value in lower case is not 'upgrade';
\* whatever the origin and location values are, they do not make it fail.
C17_ValueChecks ==
    (protocol_version # "hixie75" /\ CountsOk) =>
        LET good == /\ hdrs[HUpgrade][1] = WebSocketValue
                    /\ Lower(hdrs[HConnection][1]) = HUpgrade
        IN  /\ good <=> excAt # "hs_block_lf"
            /\ ~good => (exc # "none" /\ ~established /\ reply = <<>>)
            /\ good => pc # "hs_block_lf"

\* 'Connection: UpGrAdE', an empty origin and a location with a space in
\* it have passed the field checks.
C17_Witness ==
    /\ CountsOk
    /\ hdrs[HConnection][1] = Bytes("UpGrAdE")
    /\ hdrs[HOrigin][1] = <<>>
    /\ hdrs[HLocation][1] = Bytes("ws://x/ y")
    /\ pc = "hs_reply"

\* The status line, 'Upgrade: WebSocket' and 'Connection: Upgrade', each
\* ended by CRLF.
ExpectedLiteral ==
    Bytes("HTTP/1.1 101 Web Socket Protocol Handshake\r\n")
        \o Bytes("Upgrade: WebSocket\r\n") \o Bytes("Connection: Upgrade\r\n")

\* C18: the Hixie 75 handshake compares the response byte by byte with the
\* expected sequence: every byte before the latest one compared has
\* matched; a byte that differs is the last byte read, the handshake having
\* failed on it; and the step is passed only with the whole sequence read.
C18_Hixie75ByteForByte ==
    protocol_version = "hixie75" =>
        LET k == Min(Len(hs75Read), Len(ExpectedLiteral)) IN
        /\ \A i \in 1..(k - 1) : hs75Read[i] = ExpectedLiteral[i]
        /\ (k >= 1 /\ hs75Read[k] # ExpectedLiteral[k]) =>
            /\ Len(hs75Read) = k
            /\ nRecv = k
            /\ exc = "Handshake failure"
            /\ excAt = "hs75_expect"
            /\ pc \in {"finally", "done"}
            /\ ~established
            /\ sentFrames = <<>>
        /\ (pc = "hs75_skip" \/ established) =>
            /\ Len(hs75Read) >= Len(ExpectedLiteral)
            /\ SubSeq(hs75Read, 1, Len(ExpectedLiteral)) = ExpectedLiteral
        /\ pc = "hs75_expect" => hs75Read = SubSeq(ExpectedLiteral, 1, Len(hs75Read))

\* 'Connection' came where 'Upgrade' was expected: the handshake failed on
\* the first byte of that line.
C18_Witness ==
    /\ protocol_version = "hixie75"
    /\ exc = "Handshake failure"
    /\ Len(hs75Read) = 45
    /\ hs75Read[45] = 67
    /\ pc = "done"

\* C19: a Hixie 75 response that starts with the expected sequence and has
\* its header block ended by a blank line, with or without further
\* headers: when the CRLF CRLF that ends the block has been read, the
\* handshake has returned and has read no byte after it.
C19_StopsAtBlankLine ==
    (/\ protocol_version = "hixie75"
     /\ Len(hs75Read) >= Len(ExpectedLiteral)
     /\ SubSeq(hs75Read, 1, Len(ExpectedLiteral)) = ExpectedLiteral) =>
        \A i \in (Len(ExpectedLiteral) + 2)..Len(hs75Read) :
            SubSeq(hs75Read, i - 3, i) = <<13, 10, 13, 10>>
                => (Len(hs75Read) = i /\ pc # "hs75_skip")

\* The seven fields of the HyBi request.
SevenFields ==
    {"Upgrade", "Connection", "Host", "Origin", "Sec-WebSocket-Key1",
     "Sec-WebSocket-Key2", "Sec-WebSocket-Draft"}

\* Request line, seven fields, blank line, key3.
RequestOrder ==
    <<"method", "field", "field", "field", "field", "field", "field", "field",
      "blank", "key3">>

\* C20: the HyBi request goes out as the request line, then the seven
\* fields once each in any order, then the blank line, then key3; and the
\* first read from the server comes after key3 has been sent.
C20_RequestOrder ==
    protocol_version # "hixie75" =>
        LET k == Min(Len(wire), Len(RequestOrder)) IN
        /\ SubSeq(wire, 1, k) = SubSeq(RequestOrder, 1, k)
        /\ DOMAIN fieldSends = SevenFields
        /\ \A f \in SevenFields : fieldSends[f] <= 1
        /\ Cardinality({f \in SevenFields : fieldSends[f] = 1})
            = Cardinality({i \in 1..k : wire[i] = "field"})
        /\ (k >= 9) => \A f \in SevenFields : fieldSends[f] = 1
        /\ nRecv > 0 => (k = Len(RequestOrder) /\ wire[k] = "key3")
        /\ pc \in {"hs_method", "hs_fields", "hs_blank", "hs_key3"} => nRecv = 0

\* The whole request is out and nothing has been read yet.
C20_Witness ==
    /\ protocol_version = "hybi00"
    /\ wire = RequestOrder
    /\ \A f \in SevenFields : fieldSends[f] = 1
    /\ pc = "hs_status"
    /\ nRecv = 0

(***************************************************************************)
(* Properties of the header block                                          *)
(***************************************************************************)

\* The byte strings a block holds between its CR LF pairs, in order.
RECURSIVE HeaderLines(_)
HeaderLines(b) ==
    IF b = <<>> THEN <<>>
    ELSE LET e == IndexFrom(b, CR, 1)
         IN  <<SubSeq(b, 1, e - 1)>> \o HeaderLines(SubSeq(b, e + 2, Len(b)))

\* A well-formed header block: lines that each end with CR LF, hold no
\* other CR or LF and have a colon, then one empty line.
WellFormedBlock(b) ==
    /\ Len(b) >= 2
    /\ b[Len(b)] = LF
    /\ \A i \in 1..Len(b) :
        /\ b[i] = CR => (i < Len(b) /\ b[i + 1] = LF)
        /\ b[i] = LF => (i > 1 /\ b[i - 1] = CR)
    /\ LET ls == HeaderLines(b)
       IN  /\ ls[Len(ls)] = <<>>
           /\ \A k \in 1..(Len(ls) - 1) : IndexFrom(ls[k], COLON, 1) # 0

\* The name of a header line: the bytes before its first colon, A-Z
\* lower-cased.
LineName(l) ==
    LET c == IndexFrom(l, COLON, 1)
    IN  [i \in 1..(c - 1) |-> IF l[i] >= 65 /\ l[i] <= 90 THEN l[i] + 32 ELSE l[i]]

\* The value of a header line: the bytes after the first colon and the
\* spaces that follow it.
LineValue(l) ==
    LET c == IndexFrom(l, COLON, 1)
        first == CHOOSE i \in (c + 1)..(Len(l) + 1) :
                    /\ i <= Len(l) => l[i] # SP
                    /\ \A j \in (c + 1)..(i - 1) : l[j] = SP
    IN  SubSeq(l, first, Len(l))

\* The values of the lines named n, in the order of the lines.
RECURSIVE ValuesUnder(_, _)
ValuesUnder(ls, n) ==
    IF ls = <<>> THEN <<>>
    ELSE IF LineName(Head(ls)) = n
        THEN <<LineValue(Head(ls))>> \o ValuesUnder(Tail(ls), n)
    ELSE ValuesUnder(Tail(ls), n)

\* The header lines read: every line of the block but the empty last one.
LinesRead == SubSeq(HeaderLines(hdrRead), 1, Len(HeaderLines(hdrRead)) - 1)

\* C21: when a well-formed header block has just been read, the header map
\* (which no later statement changes) has
\* exactly the lower-cased names of its lines, and maps each to the values
\* received under it in arrival order, duplicates kept, each value the
\* bytes after the colon and its leading spaces up to the CR.
C21_HeaderMap ==
    (blockRecv # 0 /\ blockRecv = nRecv /\ WellFormedBlock(hdrRead)) =>
        /\ DOMAIN hdrs = {LineName(LinesRead[k]) : k \in 1..Len(LinesRead)}
        /\ \A n \in DOMAIN hdrs : hdrs[n] = ValuesUnder(LinesRead, n)

\* A block with sec-websocket-origin twice, in two spellings, was read.
C21_Witness ==
    /\ blockRecv # 0
    /\ blockRecv = nRecv
    /\ WellFormedBlock(hdrRead)
    /\ Len(LinesRead) = 5
    /\ hdrs[HOrigin] = <<Bytes("o"), Bytes("p")>>
    /\ hdrs[HConnection] = <<Bytes("Upgrade")>>

\* C22: the header block ends only on an empty header name (a CR read as
\* the first byte of a name), and then only if LF follows; a CR read after
\* one or more name bytes does not end the block.
C22_EndsOnEmptyName ==
    /\ pc = "hs_block_lf" => name = <<>>
    /\ blockRecv # 0 =>
        /\ name = <<>>
        /\ SubSeq(hdrRead, Len(hdrRead) - 1, Len(hdrRead)) = <<CR, LF>>

\* The handshake succeeded on a block that ended in the middle of a name.
C22_CutNameAccepted ==
    /\ established
    /\ name = Bytes("x-cut")

(***************************************************************************)
(* Properties of the closing handshake                                     *)
(***************************************************************************)

\* The socket.send calls of the closing handshake.
CloseSendOps == {i \in 1..Len(closeOps) : closeOps[i].op = "send"}

\* C23: in the HyBi 01 and HyBi 00 closing handshake the client sends the
\* close frame at most once, as acknowledgment or as its own close; when
\* the closing handshake is over it has made exactly one send, and the
\* close frame is on the wire exactly once unless that send failed.
C23_CloseFrameOnce ==
    protocol_version # "hixie75" =>
        /\ Cardinality(CloseSendOps) <= 1
        /\ CountOf(wire, "close") <= 1
        /\ (pc \in {"finally", "done"} /\ closeOps # <<>>) =>
            /\ Cardinality(CloseSendOps) = 1
            /\ \A i \in CloseSendOps :
                /\ closeOps[i].data = CloseFrameBytes
                /\ closeOps[i].ok <=> CountOf(wire, "close") = 1

\* HyBi 00: the server's close frame was acknowledged by one close frame.
C23_Witness ==
    /\ protocol_version = "hybi00"
    /\ pc = "done"
    /\ Len(closeOps) = 2
    /\ closeOps[1].data = <<255, 0>>
    /\ closeOps[2].op = "send"
    /\ CountOf(wire, "close") = 1

\* C24: when the read for the server's close frame fails or returns other
\* bytes, the client next sends the close frame itself and, once it is
\* sent, reads len(close frame) bytes, after which the closing handshake is
\* over.
C24_FallbackClose ==
    (/\ protocol_version # "hixie75"
     /\ closeOps # <<>>
     /\ closeOps[1].op = "recv"
     /\ closeOps[1].data # CloseFrameBytes) =>
        /\ Len(closeOps) <= 3
        /\ Len(closeOps) = 1 <=> pc = "close_send"
        /\ Len(closeOps) >= 2 =>
            /\ closeOps[2].op = "send"
            /\ closeOps[2].data = CloseFrameBytes
        /\ (Len(closeOps) = 2 /\ closeOps[2].ok) <=> pc = "close_recv"
        /\ Len(closeOps) = 3 =>
            /\ closeOps[2].ok
            /\ closeOps[3].op = "recv"
            /\ closeOps[3].ok => Len(closeOps[3].data) = Len(CloseFrameBytes)
            /\ pc \in {"finally", "done"}

\* 'a,Goodbye' under HyBi 01: the wait for the server's close frame timed
\* out, the client sent its own and read the acknowledgment.
C24_Witness ==
    /\ protocol_version = "hybi01"
    /\ GoodbyeLast
    /\ Len(closeOps) = 3
    /\ ~closeOps[1].ok
    /\ closeOps[2] = [op |-> "send", ok |-> TRUE, data |-> <<1, 0>>]
    /\ closeOps[3] = [op |-> "recv", ok |-> TRUE, data |-> <<1, 0>>]
    /\ pc = "done"

(***************************************************************************)
(* Properties of the numbers of a key                                      *)
(***************************************************************************)

\* x is within 0..4294967295: at most two significant limbs.
FitsU32(x) ==
    /\ \A i \in 1..Len(x) : x[i] >= 0 /\ x[i] < Limb
    /\ \A i \in 1..(Len(x) - 2) : x[i] = 0

\* C25: for every generated key, number and number * spaces are within
\* 0..4294967295; the four big-endian bytes packed for number hold it
\* whole, and a challenge made of two such numbers and a key3 is sixteen
\* bytes long.
C25_FitsUnsigned32 ==
    kPc \in {"chars", "spaces", "done"} =>
        /\ FitsU32(kNumber)
        /\ FitsU32(Product(kNumber, kSpaces))
        /\ LET packed == PackU32(kNumber)
           IN  /\ Len(packed) = 4
               /\ BigEndian(SubSeq(packed, 1, 2)) = kNumber[1]
               /\ BigEndian(SubSeq(packed, 3, 4)) = kNumber[2]
        /\ \A k3 \in Key3Draws : Len(Challenge(kNumber, kNumber, k3)) = 16

\* Three spaces and the largest number allowed with them: the product is
\* 4294967295 itself.
C25_Witness ==
    /\ kPc = "done"
    /\ kSpaces = 3
    /\ kNumber = MaxNum(3)
    /\ Product(kNumber, kSpaces) = <<0, Limb - 1, Limb - 1>>

(***************************************************************************)
(* Termination                                                             *)
(***************************************************************************)

\* Every run comes to the end of run(): no read loop of a handshake, no
\* message loop and no closing handshake goes on forever.
RunTerminates == <>(pc = "done")

\* C26: when every transport call returns or raises and the server sends
\* finitely many bytes, every run, whatever the variant and the messages,
\* eventually ends with the transport released.
C26_TerminatesReleased == <>(pc = "done" /\ rawClosed = 1)

====
